---- MODULE Spec2Model ----
(***************************************************************************)
(* Model of the Galois ordered-lockable neighborhood managers              *)
(* (libexp/include/Galois/Runtime/OrderedLockable.h) and of the conflict   *)
(* hooks of the local computation graphs (include/Galois/Graph/LCGraph.h). *)
(*                                                                         *)
(* The specifications share the variables below, among them:              *)
(*   Spec      PtrBasedNhoodMgr: threads run getNhoodItem, the owner of    *)
(*             the manager runs resetAllNItems at quiescence.              *)
(*   SpecMap   MapBasedNhoodMgr::getNhoodItem under the reader/writer lock.*)
(*   SpecGraph the graph accessors, each threading its node touches        *)
(*             through Galois::Runtime::acquire.                           *)
(***************************************************************************)
EXTENDS Integers, Sequences, FiniteSets, TLC

(* ------------------------------ bounds -------------------------------- *)

\* worker threads running getNhoodItem concurrently
NumThreads == 2

\* lockable resources
NumLockables == 1

\* addresses the fixed-size NItem allocator can hand out
NumRecords == 2

\* how many times resetAllNItems is run
MaxResets == 1

\* nodes of the graph
NumNodes == 2

\* edges of the graph
NumEdges == 2

\* largest edge payload
MaxData == 1

\* largest number of active threads a NUMA graph is distributed over
MaxActiveThreads == 2

\* sizeof (NodeInfo), sizeof (EdgeInfo) and sizeof (Header) of the packed
\* layouts, in allocation units
SizeofNodeInfo == 3

SizeofEdgeInfo == 2

SizeofHeader == 3

\* execution contexts handed to a ContextComparator
NumContexts == 4

\* largest payload (priority) of an execution context
MaxPriority == 2

\* the null pointer
NULL == 0

Threads == 1..NumThreads

Lockables == 1..NumLockables

Records == 1..NumRecords

\* GraphNode values: indices into nodeData
Nodes == 0..(NumNodes - 1)

\* edge indices: positions in edgeDst and edgeData
EdgeIdx == 0..(NumEdges - 1)

\* the values of the edge payload type EdgeTy (instantiated with int)
EdgeTy == 0..MaxData

\* the conflict policies an accessor can be called with
MethodFlag == {"none", "checkRace", "checkRaceAndNeighbors"}

\* the comparators handed to sortEdges and sortEdgesByEdgeData
Comparators == {"less", "greater"}

\* addresses of the execution contexts (Ctxt*)
Contexts == 1..NumContexts

\* the values of the payload type T of OrderedContextBase
T == 0..MaxPriority

(* ------------------------------- state -------------------------------- *)

VARIABLES
  owner,      \* Lockable::owner of each lockable: [ptr, lk] (pointer + lock bit)
  live,       \* live[r]: address r is allocated by niAlloc and constructed
  lockable,   \* OrdLocBase::lockable of the record at address r
  allNItems,  \* PerThreadBag<NItem*>: how many times each address is in the bag
  pc,         \* position of each thread (source line of the next statement)
  larg,       \* argument l of the call a thread is in
  ni,         \* local ni of getNhoodItem
  ret,        \* value a finished call returned
  casRes,     \* what tryMappingTo returned in the call: "none", "won", "lost"
  mode,       \* "run"; "reset", "dtorMap", "dtorBase" while resetAllNItems walks
              \* allNItems; "dead" once the manager is destructed
  todo,       \* the entries of allNItems resetAllNItems has still to visit
  resets,     \* number of resetAllNItems runs started
  claims,     \* per lockable: tryMappingTo calls that returned true since the
              \* slot was last cleared
  assertOk,   \* FALSE once an assert of the code has been violated
  danglingUse, \* TRUE once a freed record has been dereferenced
  nhoodMap,   \* MapBasedNhoodMgr::nhoodMap: the record mapped to each lockable
  map_mutex,  \* MapBasedNhoodMgr::map_mutex: [readers, writer]
  it,         \* local iterator i of MapBasedNhoodMgr::getNhoodItem
  nodeOwner,  \* owner slot of nodeData[n] (NodeInfoBase is a Lockable)
  edgeIndData, \* LC_CSR_Graph::edgeIndData: end of each node's edge range
  edgeDst,    \* LC_CSR_Graph::edgeDst
  edgeData,   \* LC_CSR_Graph::edgeData
  acc,        \* the graph accessor a thread is in or has returned from
  N,          \* its argument N
  mflag,      \* its argument mflag
  ii,         \* loop index ii of edge_begin / in_edge_begin
  acquired,   \* the records the call has acquired so far, in order
  file,       \* the FileGraph a graph is loaded from: [ind, dst, data]
  loaded,     \* the layouts structureFromGraph has been called on
  inl,        \* LC_CSRInline_Graph: [edgeBegin, edgeEnd, dst, data, life]
  lin,        \* LC_Linear_Graph: [nodes, mem, size, life]
  numa,       \* LC_Numa_Graph: [nodes, mem, size, begin, end, life, build]
  activeThreads, \* Galois::getActiveThreads ()
  nodeData,   \* LC_CSR_Graph::nodeData: the payload of each node
  numNodes,   \* LC_CSR_Graph::numNodes
  numEdges,   \* LC_CSR_Graph::numEdges
  transpose,  \* the FileGraph handed to LC_CSR_InOutGraph as the transpose
  inEdges,    \* LC_CSR_InOutGraph::inEdges: the three pointers and the stores
  fatal,      \* "none", or how the program was ended (GALOIS_ERROR, abort)
  active,     \* OrderedContextBase::active of each context
  cmp,        \* ContextComparator::cmp: the comparator over payloads
  compared    \* the last call of ContextComparator::operator () and its result

mgrVars == <<owner, live, lockable, allNItems, pc, larg, ni, ret, casRes, mode, todo,
             resets, claims, assertOk, danglingUse>>

mapVars == <<nhoodMap, map_mutex, it>>

graphVars == <<nodeOwner, edgeIndData, edgeDst, edgeData, acc, N, mflag, ii, acquired>>

\* the in-edge side of LC_CSR_InOutGraph
inoutVars == <<transpose, inEdges, fatal>>

\* the execution contexts' payloads and their comparator
ctxtVars == <<active, cmp, compared>>

loadVars == <<file, loaded, inl, lin, numa, activeThreads, ctxtVars, nodeData, numNodes, numEdges,
              inoutVars>>

\* what the actions of PtrBasedNhoodMgr leave alone
notPtrVars == <<mapVars, graphVars, loadVars>>

vars == <<mgrVars, mapVars, graphVars, loadVars>>

(* --------------------------- LockManagerBase -------------------------- *)

\* an owner slot nobody holds
Unowned == [ptr |-> NULL, lk |-> FALSE]

\* LockManagerBase::getOwner: the pointer stored in the slot, lock bit masked
getOwner(l) == owner[l].ptr

\* LockManagerBase::CASowner(l, other) called on self, o being the owner
\* slots of the lockables: one compare-and-swap of the whole slot word from
\* (other, unlocked) to (self, unlocked)
CASowner(o, self, l, other) ==
  IF o[l] = [ptr |-> other, lk |-> FALSE]
  THEN [ok |-> TRUE, owner |-> [o EXCEPT ![l] = [ptr |-> self, lk |-> FALSE]]]
  ELSE [ok |-> FALSE, owner |-> o]

\* LockManagerBase::tryLock: sets the lock bit, true iff it was clear
tryLock(o, l) ==
  [ok |-> ~o[l].lk, owner |-> [o EXCEPT ![l].lk = TRUE]]

\* LockManagerBase::release: unlock_and_clear of the slot
release(o, l) == [o EXCEPT ![l] = Unowned]

(* ------------------------------ OrdLocBase ---------------------------- *)

\* variant: a compare-and-swap that may fail although the slot is empty
\* (here: it always does)
tryMappingTo_Spurious(o, self, l) == [ok |-> FALSE, owner |-> o]

\* variant: the compare-and-swap is issued but its result is ignored
tryMappingTo_True(o, self, l) ==
  [ok |-> TRUE, owner |-> CASowner(o, self, l, NULL).owner]

\* variant: the caller is stored without comparing the old value
tryMappingTo_Store(o, self, l) ==
  [ok |-> TRUE, owner |-> [o EXCEPT ![l] = [ptr |-> self, lk |-> FALSE]]]

\* variant: the expected value is whatever the slot holds (a stealing CAS)
tryMappingTo_Steal(o, self, l) == CASowner(o, self, l, o[l].ptr)

\* OrdLocBase::tryMappingTo, called on self for lockable l
tryMappingTo(o, self, l) == CASowner(o, self, l, NULL)

\* variant: the lock bit is dropped but the owner pointer stays in the slot
clearMapping_KeepOwner(l) ==
  LET r == tryLock(owner, l)
  IN  [asserted |-> r.ok, owner |-> [r.owner EXCEPT ![l].lk = FALSE]]

\* OrdLocBase::clearMapping on a record whose lockable field is l:
\* r is the result of tryLock (asserted), then the slot is released
clearMapping(l) ==
  LET r == tryLock(owner, l)
  IN  [asserted |-> r.ok, owner |-> release(r.owner, l)]

(* --------------------------- PtrBasedNhoodMgr ------------------------- *)

\* addresses niAlloc.allocate may return: any one not currently allocated
FreeRecords == {r \in Records : ~live[r]}

\* a thread enters getNhoodItem(l)
Call(t, l) ==
  /\ mode = "run"
  /\ pc[t] = "idle"
  /\ pc' = [pc EXCEPT ![t] = "L180"]
  /\ larg' = [larg EXCEPT ![t] = l]
  /\ UNCHANGED <<owner, live, lockable, allNItems, ni, ret, casRes, mode, todo, resets,
                 claims, assertOk, danglingUse>>
  /\ UNCHANGED notPtrVars

\* line 180: if (NItem::getOwner (l) == NULL)
L180(t) ==
  /\ pc[t] = "L180"
  /\ pc' = [pc EXCEPT ![t] = IF getOwner(larg[t]) = NULL THEN "L182" ELSE "L194"]
  /\ UNCHANGED <<owner, live, lockable, allNItems, larg, ni, ret, casRes, mode, todo,
                 resets, claims, assertOk, danglingUse>>
  /\ UNCHANGED notPtrVars

\* PtrBasedNhoodMgr::create (line 182): allocate and construct a candidate
create(t) ==
  /\ pc[t] = "L182"
  /\ \E r \in FreeRecords :
       /\ live' = [live EXCEPT ![r] = TRUE]
       /\ lockable' = [lockable EXCEPT ![r] = larg[t]]
       /\ ni' = [ni EXCEPT ![t] = r]
  /\ pc' = [pc EXCEPT ![t] = "L184"]
  /\ UNCHANGED <<owner, allNItems, larg, ret, casRes, mode, todo, resets, claims, assertOk, danglingUse>>
  /\ UNCHANGED notPtrVars

\* variant: a caller that lost the race tries again from the top
AfterLostCAS_Retry == "L180"

\* the else branch of line 184: a caller whose tryMappingTo returned false
\* goes on to destroy its candidate (line 188)
AfterLostCAS == "L188"

\* lines 184-186: if (ni->tryMappingTo (l)) allNItems.get ().push_back (ni);
\* the push goes to the calling thread's own part of the bag
L184(t) ==
  /\ pc[t] = "L184"
  /\ LET c == tryMappingTo(owner, ni[t], larg[t])
     IN  /\ owner' = c.owner
         /\ claims' = [claims EXCEPT ![larg[t]] = IF c.ok THEN @ + 1 ELSE @]
         /\ casRes' = [casRes EXCEPT ![t] = IF c.ok THEN "won" ELSE "lost"]
         /\ IF c.ok
            THEN /\ allNItems' = [allNItems EXCEPT ![ni[t]] = @ + 1]
                 /\ ni' = [ni EXCEPT ![t] = NULL]
                 /\ pc' = [pc EXCEPT ![t] = "L191"]
            ELSE /\ pc' = [pc EXCEPT ![t] = AfterLostCAS]
                 /\ UNCHANGED <<allNItems, ni>>
  /\ UNCHANGED <<live, lockable, larg, ret, mode, todo, resets, assertOk,
                 danglingUse>>
  /\ UNCHANGED notPtrVars

\* variant: the candidate is dropped without being handed back to niAlloc
destroy_Leak(t) ==
  /\ pc[t] = "L188"
  /\ ni' = [ni EXCEPT ![t] = NULL]
  /\ pc' = [pc EXCEPT ![t] = "L191"]
  /\ UNCHANGED <<owner, live, lockable, allNItems, larg, ret, casRes, mode, todo,
                 resets, claims, assertOk, danglingUse>>
  /\ UNCHANGED notPtrVars

\* PtrBasedNhoodMgr::destroy (lines 167-172) called at line 188: destruct and
\* deallocate the candidate, null the pointer
destroy(t) ==
  /\ pc[t] = "L188"
  /\ live' = [live EXCEPT ![ni[t]] = FALSE]
  /\ lockable' = [lockable EXCEPT ![ni[t]] = NULL]
  /\ ni' = [ni EXCEPT ![t] = NULL]
  /\ pc' = [pc EXCEPT ![t] = "L191"]
  /\ UNCHANGED <<owner, allNItems, larg, ret, casRes, mode, todo, resets, claims,
                 assertOk, danglingUse>>
  /\ UNCHANGED notPtrVars

\* line 191: assert (NItem::getOwner (l) != NULL)
L191(t) ==
  /\ pc[t] = "L191"
  /\ assertOk' = (assertOk /\ getOwner(larg[t]) # NULL)
  /\ pc' = [pc EXCEPT ![t] = "L194"]
  /\ UNCHANGED <<owner, live, lockable, allNItems, larg, ni, ret, casRes, mode, todo,
                 resets, claims, danglingUse>>
  /\ UNCHANGED notPtrVars

\* lines 194-196: NItem* ret = NItem::getOwner (l); assert; return *ret
L194(t) ==
  /\ pc[t] = "L194"
  /\ ret' = [ret EXCEPT ![t] = getOwner(larg[t])]
  /\ assertOk' = (assertOk /\ getOwner(larg[t]) # NULL)
  /\ pc' = [pc EXCEPT ![t] = "ret"]
  /\ UNCHANGED <<owner, live, lockable, allNItems, larg, ni, casRes, mode, todo, resets,
                 claims, danglingUse>>
  /\ UNCHANGED notPtrVars

\* the caller is done with the reference it was given
Finish(t) ==
  /\ pc[t] = "ret"
  /\ pc' = [pc EXCEPT ![t] = "idle"]
  /\ larg' = [larg EXCEPT ![t] = NULL]
  /\ ni' = [ni EXCEPT ![t] = NULL]
  /\ ret' = [ret EXCEPT ![t] = NULL]
  /\ casRes' = [casRes EXCEPT ![t] = "none"]
  /\ UNCHANGED <<owner, live, lockable, allNItems, mode, todo, resets, claims, assertOk, danglingUse>>
  /\ UNCHANGED notPtrVars

\* resetAllNItems (lines 220-223) starts: do_all_impl over the local ranges of
\* allNItems; the caller guarantees that no getNhoodItem is running
resetAllNItems ==
  /\ mode = "run"
  /\ \A t \in Threads : pc[t] = "idle"
  /\ resets < MaxResets
  /\ mode' = "reset"
  /\ todo' = allNItems
  /\ resets' = resets + 1
  /\ UNCHANGED <<owner, live, lockable, allNItems, pc, larg, ni, ret, casRes, claims, assertOk, danglingUse>>
  /\ UNCHANGED notPtrVars

\* do_all_impl of resetAllNItems is running: called as reset, from
\* ~MapBasedNhoodMgr or from ~PtrBasedNhoodMgr
Walking == {"reset", "dtorMap", "dtorBase"}

\* Reset::operator() (lines 214-217) on one entry r of the bag:
\* ni->clearMapping (), then self->destroy (ni).  The entries are visited in
\* any order (parallel loop).  An entry whose record was already destroyed is
\* a dangling pointer: its lockable field holds whatever the freed memory holds.
Reset(r) ==
  /\ mode \in Walking
  /\ todo[r] > 0
  /\ \E l \in (IF live[r] THEN {lockable[r]} ELSE Lockables) :
       LET c == clearMapping(l)
       IN  /\ owner' = c.owner
           /\ assertOk' = (assertOk /\ c.asserted)
           /\ claims' = [claims EXCEPT ![l] = 0]
  /\ danglingUse' = (danglingUse \/ ~live[r])
  /\ live' = [live EXCEPT ![r] = FALSE]
  /\ lockable' = [lockable EXCEPT ![r] = NULL]
  /\ todo' = [todo EXCEPT ![r] = @ - 1]
  /\ UNCHANGED <<allNItems, pc, larg, ni, ret, casRes, mode, resets>>
  /\ UNCHANGED notPtrVars

\* do_all_impl returns; allNItems itself is left as it was
ResetDone ==
  /\ mode = "reset"
  /\ \A r \in Records : todo[r] = 0
  /\ mode' = "run"
  /\ UNCHANGED <<owner, live, lockable, allNItems, pc, larg, ni, ret, casRes, todo,
                 resets, claims, assertOk, danglingUse>>
  /\ UNCHANGED notPtrVars

\* the managers after construction, no call in progress
InitMgr ==
  /\ owner = [l \in Lockables |-> Unowned]
  /\ live = [r \in Records |-> FALSE]
  /\ lockable = [r \in Records |-> NULL]
  /\ allNItems = [r \in Records |-> 0]
  /\ pc = [t \in Threads |-> "idle"]
  /\ larg = [t \in Threads |-> NULL]
  /\ ni = [t \in Threads |-> NULL]
  /\ ret = [t \in Threads |-> NULL]
  /\ casRes = [t \in Threads |-> "none"]
  /\ mode = "run"
  /\ todo = [r \in Records |-> 0]
  /\ resets = 0
  /\ claims = [l \in Lockables |-> 0]
  /\ assertOk = TRUE
  /\ danglingUse = FALSE
  /\ nhoodMap = [l \in Lockables |-> NULL]
  /\ map_mutex = [readers |-> {}, writer |-> NULL]
  /\ it = [t \in Threads |-> NULL]

\* no thread is inside a graph accessor
InitAccess ==
  /\ nodeOwner = [n \in Nodes |-> Unowned]
  /\ acc = [t \in Threads |-> "none"]
  /\ N = [t \in Threads |-> 0]
  /\ mflag = [t \in Threads |-> "none"]
  /\ ii = [t \in Threads |-> 0]
  /\ acquired = [t \in Threads |-> <<>>]

\* the lifetime of a graph object and of its edge payloads: dead once the
\* destructor has run; destroyed counts the calls of destroy () on each slot
\* of edgeData, outside is set by a destroy () of a slot that is not one of
\* the array, pastEnd by a read of a node record that is not one of nodeData
Alive == [dead |-> FALSE, destroyed |-> <<>>, outside |-> FALSE, pastEnd |-> FALSE]

\* no call of a ContextComparator has been made
NoCall == [called |-> FALSE, left |-> NULL, right |-> NULL, result |-> FALSE]

\* the contexts carry the payload 0 and are compared with std::less
InitContexts ==
  /\ active = [c \in Contexts |-> 0]
  /\ cmp = [kind |-> "less", rank |-> [x \in T |-> x]]
  /\ compared = NoCall

\* a graph object before structureFromGraph: nothing allocated
NoInline ==
  [edgeBegin |-> [n \in Nodes |-> 0], edgeEnd |-> [n \in Nodes |-> 0],
   nodeData |-> <<>>, dst |-> <<>>, data |-> <<>>, ok |-> TRUE,
   numNodes |-> 0, numEdges |-> 0, life |-> Alive]

NoLinear ==
  [nodes |-> [n \in Nodes |-> 0], mem |-> <<>>, ok |-> TRUE,
   numNodes |-> 0, numEdges |-> 0, life |-> Alive]

\* no structureFromGraph of the LC_Numa_Graph has been started: nodesDone and
\* edgesDone are the threads on which the functor of the first and of the
\* second on_each has finished
NotBuilding == [phase |-> "none", nodesDone |-> {}, edgesDone |-> {}]

NoNuma ==
  [nodes |-> [n \in Nodes |-> 0], mem |-> <<>>, ok |-> TRUE,
   numNodes |-> 0, numEdges |-> 0, life |-> Alive, build |-> NotBuilding,
   headers |-> [tid \in 0..(MaxActiveThreads - 1) |-> [begin |-> 0, end |-> 0]]]

\* a FileGraph of NumNodes nodes without edges
EmptyFile == [ind |-> [n \in Nodes |-> 0], dst |-> <<>>, data |-> <<>>]

\* InEdges before initialize: the pointers are not set, the stores are empty
NoInEdges ==
  [edgeIndData |-> "unset", edgeDst |-> "unset", edgeData |-> "unset",
   edgeIndDataStore |-> <<>>, edgeDstStore |-> <<>>, edgeDataStore |-> <<>>]

\* no transpose is at hand, the in-edges are not initialized, the program runs
NoInOut ==
  /\ transpose = EmptyFile
  /\ inEdges = NoInEdges
  /\ fatal = "none"

\* no graph has been loaded into the four layouts
InitLoad ==
  /\ NoInOut
  /\ loaded = {}
  /\ nodeData = <<>>
  /\ numNodes = 0
  /\ numEdges = 0
  /\ inl = NoInline
  /\ lin = NoLinear
  /\ numa = NoNuma
  /\ activeThreads = 1

\* the managers are used on their own: the graph has no edges
Init ==
  /\ InitMgr
  /\ InitAccess
  /\ InitContexts
  /\ InitLoad
  /\ file = EmptyFile
  /\ edgeIndData = [n \in Nodes |-> 0]
  /\ edgeDst = <<>>
  /\ edgeData = <<>>

Next ==
  \/ \E t \in Threads, l \in Lockables : Call(t, l)
  \/ \E t \in Threads : L180(t)
  \/ \E t \in Threads : create(t)
  \/ \E t \in Threads : L184(t)
  \/ \E t \in Threads : destroy(t)
  \/ \E t \in Threads : L191(t)
  \/ \E t \in Threads : L194(t)
  \/ \E t \in Threads : Finish(t)
  \/ resetAllNItems
  \/ \E r \in Records : Reset(r)
  \/ ResetDone

Spec == Init /\ [][Next]_vars

(* --------------------------- ContextComparator ------------------------ *)

\* the comparators over payloads a ContextComparator is built on: the
\* payloads are ranked and the ranks compared with < (every strict weak
\* ordering is one of these) or with <= (not a strict weak ordering)
Cmps == [kind : {"less", "less_equal"}, rank : [T -> T]]

\* cmp (x, y) for the comparator f
call(f, x, y) ==
  IF f.kind = "less" THEN f.rank[x] < f.rank[y] ELSE f.rank[x] <= f.rank[y]

\* OrderedContextBase::getActive of the context at address c
getActive(c) == active[c]

\* variant: the arguments are handed to cmp in the opposite order
ContextComparator_Swapped(left, right) == call(cmp, getActive(right), getActive(left))

\* ContextComparator::operator () on two non-null contexts (line 79)
ContextComparator(left, right) == call(cmp, getActive(left), getActive(right))

\* a call of ContextComparator::operator () (lines 76-80): each assert fails
\* on a null argument, otherwise the result of line 79 is returned
Compare(left, right) ==
  /\ assertOk
  /\ IF left = NULL \/ right = NULL
     THEN /\ assertOk' = FALSE
          /\ compared' = [called |-> TRUE, left |-> left, right |-> right,
                          result |-> FALSE]
     ELSE /\ compared' = [called |-> TRUE, left |-> left, right |-> right,
                          result |-> ContextComparator(left, right)]
          /\ UNCHANGED assertOk
  /\ UNCHANGED <<active, cmp>>
  /\ UNCHANGED <<owner, live, lockable, allNItems, pc, larg, ni, ret, casRes, mode, todo,
                 resets, claims, danglingUse>>
  /\ UNCHANGED <<mapVars, graphVars, file, loaded, inl, lin, numa, activeThreads,
                 nodeData, numNodes, numEdges, inoutVars>>

\* any payloads, any comparator
InitCmp ==
  /\ InitMgr
  /\ InitAccess
  /\ InitLoad
  /\ file = EmptyFile
  /\ edgeIndData = [n \in Nodes |-> 0]
  /\ edgeDst = <<>>
  /\ edgeData = <<>>
  /\ active \in [Contexts -> T]
  /\ cmp \in Cmps
  /\ compared = NoCall

NextCmp == \E left, right \in Contexts \cup {NULL} : Compare(left, right)

SpecCmp == InitCmp /\ [][NextCmp]_vars

(* --------------------------- MapBasedNhoodMgr ------------------------- *)

\* what the actions of MapBasedNhoodMgr::getNhoodItem leave alone
notMapVars == <<owner, casRes, mode, todo, resets, claims, assertOk, danglingUse,
                graphVars, loadVars>>

\* ThreadRWlock::readLock can be taken: no writer is inside
CanReadLock == map_mutex.writer = NULL

\* ThreadRWlock::writeLock can be taken: nobody is inside
CanWriteLock == map_mutex.writer = NULL /\ map_mutex.readers = {}

\* a thread enters MapBasedNhoodMgr::getNhoodItem(l)
MapCall(t, l) ==
  /\ mode = "run"
  /\ pc[t] = "idle"
  /\ pc' = [pc EXCEPT ![t] = "M260"]
  /\ larg' = [larg EXCEPT ![t] = l]
  /\ UNCHANGED <<live, lockable, allNItems, ni, ret, mapVars, notMapVars>>

\* lines 260 and 279: map_mutex.readLock ()
readLock(t) ==
  /\ pc[t] \in {"M260", "M279"}
  /\ CanReadLock
  /\ map_mutex' = [map_mutex EXCEPT !.readers = @ \cup {t}]
  /\ pc' = [pc EXCEPT ![t] = IF pc[t] = "M260" THEN "M261" ELSE "M280"]
  /\ UNCHANGED <<live, lockable, allNItems, larg, ni, ret, nhoodMap, it, notMapVars>>

\* lines 261-263: i = nhoodMap.find (l); if (i == nhoodMap.end ())
M261(t) ==
  /\ pc[t] = "M261"
  /\ it' = [it EXCEPT ![t] = nhoodMap[larg[t]]]
  /\ pc' = [pc EXCEPT ![t] = IF nhoodMap[larg[t]] = NULL THEN "M266" ELSE "M283"]
  /\ UNCHANGED <<live, lockable, allNItems, larg, ni, ret, nhoodMap, map_mutex,
                 notMapVars>>

\* variant: the read lock is kept at line 266, the caller asks for the write
\* lock while it is a reader
readUnlock_Upgrade(t) ==
  /\ pc[t] \in {"M266", "M283"}
  /\ map_mutex' = [map_mutex EXCEPT !.readers = IF pc[t] = "M266" THEN @ ELSE @ \ {t}]
  /\ pc' = [pc EXCEPT ![t] = IF pc[t] = "M266" THEN "M268" ELSE "M284"]
  /\ UNCHANGED <<live, lockable, allNItems, larg, ni, ret, nhoodMap, it, notMapVars>>

\* lines 266 and 283: map_mutex.readUnlock ()
readUnlock(t) ==
  /\ pc[t] \in {"M266", "M283"}
  /\ map_mutex' = [map_mutex EXCEPT !.readers = @ \ {t}]
  /\ pc' = [pc EXCEPT ![t] = IF pc[t] = "M266" THEN "M268" ELSE "M284"]
  /\ UNCHANGED <<live, lockable, allNItems, larg, ni, ret, nhoodMap, it, notMapVars>>

\* line 268: map_mutex.writeLock ()
writeLock(t) ==
  /\ pc[t] = "M268"
  /\ CanWriteLock
  /\ map_mutex' = [map_mutex EXCEPT !.writer = t]
  /\ pc' = [pc EXCEPT ![t] = "M270"]
  /\ UNCHANGED <<live, lockable, allNItems, larg, ni, ret, nhoodMap, it, notMapVars>>

\* variant: the entry is created without looking again under the write lock
StillMissing_NoRecheck(l) == TRUE

\* line 270: if (nhoodMap.find (l) == nhoodMap.end ())
StillMissing(l) == nhoodMap[l] = NULL

\* lines 270-275, under the write lock: check again, and if the entry is still
\* missing create the record, push it to allNItems and insert it.
\* unordered_map::insert leaves an entry that is already there as it is.
M270(t) ==
  /\ pc[t] = "M270"
  /\ IF StillMissing(larg[t])
     THEN \E r \in FreeRecords :
            /\ live' = [live EXCEPT ![r] = TRUE]
            /\ lockable' = [lockable EXCEPT ![r] = larg[t]]
            /\ ni' = [ni EXCEPT ![t] = r]
            /\ allNItems' = [allNItems EXCEPT ![r] = @ + 1]
            /\ nhoodMap' = [nhoodMap EXCEPT ![larg[t]] = IF @ = NULL THEN r ELSE @]
     ELSE UNCHANGED <<live, lockable, ni, allNItems, nhoodMap>>
  /\ pc' = [pc EXCEPT ![t] = "M276"]
  /\ UNCHANGED <<larg, ret, map_mutex, it, notMapVars>>

\* line 276: map_mutex.writeUnlock (); the local ni goes out of scope
writeUnlock(t) ==
  /\ pc[t] = "M276"
  /\ map_mutex' = [map_mutex EXCEPT !.writer = NULL]
  /\ ni' = [ni EXCEPT ![t] = NULL]
  /\ pc' = [pc EXCEPT ![t] = "M279"]
  /\ UNCHANGED <<live, lockable, allNItems, larg, ret, nhoodMap, it, notMapVars>>

\* line 280: i = nhoodMap.find (l)
M280(t) ==
  /\ pc[t] = "M280"
  /\ it' = [it EXCEPT ![t] = nhoodMap[larg[t]]]
  /\ pc' = [pc EXCEPT ![t] = "M283"]
  /\ UNCHANGED <<live, lockable, allNItems, larg, ni, ret, nhoodMap, map_mutex,
                 notMapVars>>

\* lines 284-287: the asserts, and return *(i->second)
M284(t) ==
  /\ pc[t] = "M284"
  /\ ret' = [ret EXCEPT ![t] = it[t]]
  /\ pc' = [pc EXCEPT ![t] = "ret"]
  /\ UNCHANGED <<live, lockable, allNItems, larg, ni, nhoodMap, map_mutex, it,
                 owner, casRes, mode, todo, resets, claims, danglingUse, graphVars,
                 loadVars>>
  /\ assertOk' = (assertOk /\ it[t] # NULL)

\* the caller is done with the reference it was given
MapFinish(t) ==
  /\ pc[t] = "ret"
  /\ pc' = [pc EXCEPT ![t] = "idle"]
  /\ larg' = [larg EXCEPT ![t] = NULL]
  /\ ret' = [ret EXCEPT ![t] = NULL]
  /\ it' = [it EXCEPT ![t] = NULL]
  /\ UNCHANGED <<live, lockable, allNItems, ni, nhoodMap, map_mutex, notMapVars>>

NextMap ==
  \/ \E t \in Threads, l \in Lockables : MapCall(t, l)
  \/ \E t \in Threads : readLock(t)
  \/ \E t \in Threads : M261(t)
  \/ \E t \in Threads : readUnlock(t)
  \/ \E t \in Threads : writeLock(t)
  \/ \E t \in Threads : M270(t)
  \/ \E t \in Threads : writeUnlock(t)
  \/ \E t \in Threads : M280(t)
  \/ \E t \in Threads : M284(t)
  \/ \E t \in Threads : MapFinish(t)

SpecMap == Init /\ [][NextMap]_vars

(* ------------- MapBasedNhoodMgr under fair scheduling ------------------ *)

\* the statements of getNhoodItem that need no lock to be granted
MapStep(t) ==
  \/ M261(t)
  \/ readUnlock(t)
  \/ M270(t)
  \/ writeUnlock(t)
  \/ M280(t)
  \/ M284(t)

\* thread t holds map_mutex, as a reader or as the writer
Holds(t) == t \in map_mutex.readers \/ map_mutex.writer = t

\* thread t is waiting in readLock or writeLock
Waits(t) == pc[t] \in {"M260", "M268", "M279"}

\* a running thread takes its next step, and map_mutex is granted fairly:
\* a thread waits for the lock for ever only if some thread holds the lock
\* for ever
FairMap ==
  /\ \A t \in Threads : WF_vars(MapStep(t))
  /\ \/ \A t \in Threads : []<>~Waits(t)
     \/ \E u \in Threads : <>[]Holds(u)

SpecMapFair == Init /\ [][NextMap]_vars /\ FairMap

(* ------------------ MapBasedNhoodMgr: reset and teardown -------------- *)

\* ~MapBasedNhoodMgr (lines 292-294) starts: Base::resetAllNItems ()
dtorMapBasedNhoodMgr ==
  /\ mode = "run"
  /\ \A t \in Threads : pc[t] = "idle"
  /\ mode' = "dtorMap"
  /\ todo' = allNItems
  /\ UNCHANGED <<owner, live, lockable, allNItems, pc, larg, ni, ret, casRes, resets,
                 claims, assertOk, danglingUse>>
  /\ UNCHANGED notPtrVars

\* the body of ~MapBasedNhoodMgr is done, its members nhoodMap and map_mutex
\* are destructed, and ~PtrBasedNhoodMgr (lines 207-209) starts:
\* resetAllNItems () once more, over the same allNItems
dtorPtrBasedNhoodMgr ==
  /\ mode = "dtorMap"
  /\ \A r \in Records : todo[r] = 0
  /\ mode' = "dtorBase"
  /\ todo' = allNItems
  /\ nhoodMap' = [l \in Lockables |-> NULL]
  /\ UNCHANGED <<owner, live, lockable, allNItems, pc, larg, ni, ret, casRes, resets,
                 claims, assertOk, danglingUse>>
  /\ UNCHANGED <<map_mutex, it, graphVars, loadVars>>

\* the body of ~PtrBasedNhoodMgr is done: the manager is gone
Destructed ==
  /\ mode = "dtorBase"
  /\ \A r \in Records : todo[r] = 0
  /\ mode' = "dead"
  /\ UNCHANGED <<owner, live, lockable, allNItems, pc, larg, ni, ret, casRes, todo,
                 resets, claims, assertOk, danglingUse>>
  /\ UNCHANGED notPtrVars

\* MapBasedNhoodMgr with the inherited reset and its teardown
NextMapReset ==
  \/ NextMap
  \/ resetAllNItems
  \/ \E r \in Records : Reset(r)
  \/ ResetDone
  \/ dtorMapBasedNhoodMgr
  \/ dtorPtrBasedNhoodMgr
  \/ Destructed

SpecMapReset == Init /\ [][NextMapReset]_vars

(* ------------------------ local computation graphs --------------------- *)

\* what the graph accessors leave alone
notGraphVars == <<owner, live, lockable, allNItems, larg, ni, ret, mode, todo, resets,
                  claims, assertOk, danglingUse, mapVars, loadVars>>

\* the structural inputs a graph is loaded from: CSR arrays of NumNodes nodes
\* and NumEdges edges, of any shape; the edge payloads are all the same value,
\* so that a sort by payload may leave the edges of a node in any order
FileGraphs ==
  {g \in [ind : [Nodes -> 0..NumEdges], dst : [EdgeIdx -> Nodes],
          data : [EdgeIdx -> {0}]] :
     /\ \A n \in Nodes : n > 0 => g.ind[n - 1] <= g.ind[n]
     /\ g.ind[NumNodes - 1] = NumEdges}

\* LC_CSR_Graph::structureFromGraph: the arrays are copied from the input
structureFromGraph(g) ==
  /\ edgeIndData = g.ind
  /\ edgeDst = g.dst
  /\ edgeData = g.data

\* LC_CSR_Graph::raw_neighbor_begin
raw_neighbor_begin(n) == IF n = 0 THEN 0 ELSE edgeIndData[n - 1]

\* LC_CSR_Graph::raw_neighbor_end
raw_neighbor_end(n) == edgeIndData[n]

\* *inEdges.edgeIndData, *inEdges.edgeDst and *inEdges.edgeData: the arrays of
\* the out-edges (initialize with symmetric = true) or the stores of inEdges
InEdges_edgeIndData ==
  IF inEdges.edgeIndData = "Super" THEN edgeIndData ELSE inEdges.edgeIndDataStore

InEdges_edgeDst ==
  IF inEdges.edgeDst = "Super" THEN edgeDst ELSE inEdges.edgeDstStore

InEdges_edgeData ==
  IF inEdges.edgeData = "Super" THEN edgeData ELSE inEdges.edgeDataStore

\* InEdgesBase::raw_begin
raw_begin(n) == IF n = 0 THEN 0 ELSE InEdges_edgeIndData[n - 1]

\* InEdgesBase::raw_end
raw_end(n) == InEdges_edgeIndData[n]

\* InEdgesBase::getEdgeDst
getEdgeDst(e) == InEdges_edgeDst[e]

\* the policies under which Galois::Runtime::acquire takes the record
acquires(m) == m # "none"

\* Galois::Runtime::shouldLock: the policy asks for the whole neighborhood
shouldLock(m) == m = "checkRaceAndNeighbors"

\* Galois::Runtime::acquire(lockable, mflag) run by context ctx on the owner
\* slots o: nothing under none; a record the context already holds is
\* recognised without a compare-and-swap; otherwise one claim attempt
acquire(o, ctx, n, m) ==
  IF ~acquires(m) \/ o[n].ptr = ctx
  THEN [ok |-> TRUE, owner |-> o, cas |-> "none"]
  ELSE LET r == tryMappingTo(o, ctx, n)
       IN  [ok |-> r.ok, owner |-> r.owner, cas |-> IF r.ok THEN "won" ELSE "lost"]

\* the opening statement of every node accessor a, acquire(&nodeData[N], mflag):
\* macq is the policy handed to acquire, cont the statement that follows a
\* successful acquisition and i0 the value ii starts from
access(t, a, n, m, macq, cont, i0) ==
  /\ pc[t] = "idle"
  /\ LET r == acquire(nodeOwner, t, n, macq)
     IN  /\ nodeOwner' = r.owner
         /\ casRes' = [casRes EXCEPT ![t] = r.cas]
         /\ pc' = [pc EXCEPT ![t] = IF r.ok THEN cont ELSE "conflict"]
         /\ acquired' = [acquired EXCEPT ![t] =
                           IF r.ok /\ acquires(macq) THEN <<n>> ELSE <<>>]
  /\ acc' = [acc EXCEPT ![t] = a]
  /\ N' = [N EXCEPT ![t] = n]
  /\ mflag' = [mflag EXCEPT ![t] = m]
  /\ ii' = [ii EXCEPT ![t] = i0]
  /\ UNCHANGED notGraphVars

topology == <<edgeIndData, edgeDst, edgeData>>

\* variant: the policy argument is dropped and acquire gets its default
getData_DefaultFlag(t, n, m) ==
  /\ access(t, "getData", n, m, "checkRaceAndNeighbors", "ret", 0)
  /\ UNCHANGED topology

\* variant: the payload is returned without the call to acquire
getData_NoAcquire(t, n, m) ==
  /\ access(t, "getData", n, m, "none", "ret", 0)
  /\ UNCHANGED topology

\* LC_CSR_Graph::getData (the same statements in LC_CSRInline_Graph,
\* LC_Linear_Graph and LC_Numa_Graph)
getData(t, n, m) ==
  /\ access(t, "getData", n, m, m, "ret", 0)
  /\ UNCHANGED topology

\* variant: the neighbor loop is entered without asking shouldLock
edge_begin_NoGuard(t, n, m) ==
  /\ access(t, "edge_begin", n, m, m,
            IF raw_neighbor_begin(n) # raw_neighbor_end(n) THEN "G181" ELSE "ret",
            raw_neighbor_begin(n))
  /\ UNCHANGED topology

\* LC_CSR_Graph::edge_begin up to the loop (lines 178-180)
edge_begin(t, n, m) ==
  /\ access(t, "edge_begin", n, m, m,
            IF shouldLock(m) /\ raw_neighbor_begin(n) # raw_neighbor_end(n)
            THEN "G181" ELSE "ret",
            raw_neighbor_begin(n))
  /\ UNCHANGED topology

\* one iteration of a neighbor loop at statement here: acquire(&nodeData[d],
\* macq), ++ii, and the loop test against ee
acquireDst(t, here, d, macq, ee) ==
  /\ pc[t] = here
  /\ LET r == acquire(nodeOwner, t, d, macq)
     IN  /\ nodeOwner' = r.owner
         /\ casRes' = [casRes EXCEPT ![t] = r.cas]
         /\ IF r.ok
            THEN /\ ii' = [ii EXCEPT ![t] = @ + 1]
                 /\ acquired' = [acquired EXCEPT ![t] =
                                   IF acquires(macq) THEN Append(@, d) ELSE @]
                 /\ pc' = [pc EXCEPT ![t] =
                             IF ii[t] + 1 # ee THEN here
                             ELSE IF acc[t] = "out_edges" THEN "G189" ELSE "ret"]
            ELSE /\ pc' = [pc EXCEPT ![t] = "conflict"]
                 /\ UNCHANGED <<ii, acquired>>
  /\ UNCHANGED <<acc, N, mflag, topology, notGraphVars>>

\* variant: the loop body names the node itself instead of the destination
G181_WrongNode(t) ==
  acquireDst(t, "G181", N[t], mflag[t], raw_neighbor_end(N[t]))

\* LC_CSR_Graph::edge_begin, line 181 (one iteration of the loop)
G181(t) ==
  acquireDst(t, "G181", edgeDst[ii[t]], mflag[t], raw_neighbor_end(N[t]))

\* LC_CSR_Graph::edge_end
edge_end(t, n, m) ==
  /\ access(t, "edge_end", n, m, m, "ret", 0)
  /\ UNCHANGED topology

\* LC_CSR_Graph::out_edges: the range runs edge_begin(N, mflag) for its begin
\* and edge_end(N, mflag) for its end
out_edges(t, n, m) ==
  /\ access(t, "out_edges", n, m, m,
            IF shouldLock(m) /\ raw_neighbor_begin(n) # raw_neighbor_end(n)
            THEN "G181" ELSE "G189",
            raw_neighbor_begin(n))
  /\ UNCHANGED topology

\* the edge_end call of an out_edges range (line 189)
G189(t) ==
  /\ pc[t] = "G189"
  /\ LET r == acquire(nodeOwner, t, N[t], mflag[t])
     IN  /\ nodeOwner' = r.owner
         /\ casRes' = [casRes EXCEPT ![t] = r.cas]
         /\ pc' = [pc EXCEPT ![t] = IF r.ok THEN "ret" ELSE "conflict"]
  /\ UNCHANGED <<acc, N, mflag, ii, acquired, topology, notGraphVars>>

\* LC_CSR_InOutGraph::in_edge_begin up to the loop (lines 372-374)
in_edge_begin(t, n, m) ==
  /\ access(t, "in_edge_begin", n, m, m,
            IF shouldLock(m) /\ raw_begin(n) # raw_end(n) THEN "G375" ELSE "ret",
            raw_begin(n))
  /\ UNCHANGED topology

\* LC_CSR_InOutGraph::in_edge_begin, line 375 (one iteration of the loop)
G375(t) ==
  acquireDst(t, "G375", getEdgeDst(ii[t]), mflag[t], raw_end(N[t]))

\* what the edge-level accessors leave alone besides the owner slots
notEdgeAccessVars == <<owner, live, lockable, allNItems, larg, ni, mode, todo, resets,
                       claims, assertOk, danglingUse, mapVars, loadVars, N, acquired,
                       topology>>

\* an edge-level accessor a called with edge iterator e under policy m and
\* policy macq handed to the acquire of node d (none: no acquire in the
\* body), returning value v
edgeAccess(t, a, e, m, d, macq, v) ==
  /\ pc[t] = "idle"
  /\ LET r == acquire(nodeOwner, t, d, macq)
     IN  /\ nodeOwner' = r.owner
         /\ casRes' = [casRes EXCEPT ![t] = r.cas]
         /\ pc' = [pc EXCEPT ![t] = IF r.ok THEN "ret" ELSE "conflict"]
         /\ ret' = [ret EXCEPT ![t] = IF r.ok THEN v ELSE NULL]
  /\ acc' = [acc EXCEPT ![t] = a]
  /\ mflag' = [mflag EXCEPT ![t] = m]
  /\ ii' = [ii EXCEPT ![t] = e]
  /\ UNCHANGED notEdgeAccessVars

\* variant: the destination of the edge is acquired under the policy given
getEdgeData_Acquire(t, e, m) ==
  edgeAccess(t, "getEdgeData", e, m, edgeDst[e], m, edgeData[e])

\* LC_CSR_Graph::getEdgeData: checkWrite(mflag, false), which audits writes
\* and this is none, then edgeData[*ni]
getEdgeData(t, e, m) ==
  edgeAccess(t, "getEdgeData", e, m, edgeDst[e], "none", edgeData[e])

\* variant: the destination of the edge is acquired before it is returned
LC_getEdgeDst_Acquire(t, e) ==
  edgeAccess(t, "getEdgeDst", e, "none", edgeDst[e], "checkRace", edgeDst[e])

\* LC_CSR_Graph::getEdgeDst: edgeDst[*ni]
LC_getEdgeDst(t, e) ==
  edgeAccess(t, "getEdgeDst", e, "none", edgeDst[e], "none", edgeDst[e])

\* the permutations of a set of edge indices
Perms(R) == {p \in [R -> R] : \A x, y \in R : p[x] = p[y] => x = y}

\* a comparator applied to two keys
before(c, x, y) == IF c = "less" THEN x < y ELSE x > y

\* std::sort(edge_sort_begin(n), edge_sort_end(n), comp): the edges of n,
\* destination and payload together, are permuted into an order in which no
\* edge comes before one that comp puts first (which one, among equivalent
\* edges, is not determined); key is what comp looks at
std_sort(n, c, key) ==
  LET R == raw_neighbor_begin(n)..(raw_neighbor_end(n) - 1)
  IN  \E p \in Perms(R) :
        /\ \A i, j \in R : i < j => ~before(c, key[p[j]], key[p[i]])
        /\ edgeDst' = [e \in EdgeIdx |-> IF e \in R THEN edgeDst[p[e]] ELSE edgeDst[e]]
        /\ edgeData' = [e \in EdgeIdx |-> IF e \in R THEN edgeData[p[e]] ELSE edgeData[e]]
        /\ UNCHANGED edgeIndData

\* the accessors that hand out a range of the edges of a node
EdgeAccessors == {"edge_begin", "edge_end", "out_edges", "in_edge_begin"}

\* the caller's obligation for the sorts: no other thread is traversing the
\* edges of n
NoTraversal(t, n) ==
  \A u \in Threads \ {t} :
    ~(pc[u] # "idle" /\ acc[u] \in EdgeAccessors /\ N[u] = n)

(* --------------------------- sorting the edges ------------------------- *)

\* variant: only the payload array is sorted, the destinations stay
sortEdgesByEdgeData_DataOnly(t, n, c, m) ==
  /\ NoTraversal(t, n)
  /\ access(t, "sortEdgesByEdgeData", n, m, m, "ret", 0)
  /\ IF acquire(nodeOwner, t, n, m).ok
     THEN LET R == raw_neighbor_begin(n)..(raw_neighbor_end(n) - 1)
          IN  \E p \in Perms(R) :
                /\ \A i, j \in R : i < j => ~before(c, edgeData[p[j]], edgeData[p[i]])
                /\ edgeData' = [e \in EdgeIdx |-> IF e \in R THEN edgeData[p[e]]
                                                 ELSE edgeData[e]]
                /\ UNCHANGED <<edgeIndData, edgeDst>>
     ELSE UNCHANGED topology

\* LC_CSR_Graph::sortEdgesByEdgeData, comp comparing edge payloads
sortEdgesByEdgeData(t, n, c, m) ==
  /\ NoTraversal(t, n)
  /\ access(t, "sortEdgesByEdgeData", n, m, m, "ret", 0)
  /\ IF acquire(nodeOwner, t, n, m).ok
     THEN std_sort(n, c, edgeData)
     ELSE UNCHANGED topology

\* variant: the sort runs over the edges of every node at once
sortEdges_WholeArray(t, n, c, m) ==
  /\ NoTraversal(t, n)
  /\ access(t, "sortEdges", n, m, m, "ret", 0)
  /\ IF acquire(nodeOwner, t, n, m).ok
     THEN \E p \in Perms(EdgeIdx) :
            /\ \A i, j \in EdgeIdx : i < j => ~before(c, edgeDst[p[j]], edgeDst[p[i]])
            /\ edgeDst' = [e \in EdgeIdx |-> edgeDst[p[e]]]
            /\ edgeData' = [e \in EdgeIdx |-> edgeData[p[e]]]
            /\ UNCHANGED edgeIndData
     ELSE UNCHANGED topology

\* LC_CSR_Graph::sortEdges, comp comparing the destinations of two
\* EdgeSortValues
sortEdges(t, n, c, m) ==
  /\ NoTraversal(t, n)
  /\ access(t, "sortEdges", n, m, m, "ret", 0)
  /\ IF acquire(nodeOwner, t, n, m).ok
     THEN std_sort(n, c, edgeDst)
     ELSE UNCHANGED topology

\* the caller goes on after an accessor has returned
Return(t) ==
  /\ pc[t] = "ret"
  /\ pc' = [pc EXCEPT ![t] = "idle"]
  /\ acc' = [acc EXCEPT ![t] = "none"]
  /\ N' = [N EXCEPT ![t] = 0]
  /\ mflag' = [mflag EXCEPT ![t] = "none"]
  /\ ii' = [ii EXCEPT ![t] = 0]
  /\ acquired' = [acquired EXCEPT ![t] = <<>>]
  /\ casRes' = [casRes EXCEPT ![t] = "none"]
  /\ ret' = [ret EXCEPT ![t] = NULL]
  /\ UNCHANGED <<nodeOwner, topology, owner, live, lockable, allNItems, larg, ni, mode,
                 todo, resets, claims, assertOk, danglingUse, mapVars, loadVars>>

\* every record context ctx holds is released
releaseAll(o, ctx) == [n \in Nodes |-> IF o[n].ptr = ctx THEN Unowned ELSE o[n]]

\* a failed acquire ends the iteration of the context: the scheduler releases
\* what the context holds
abort(t) ==
  /\ pc[t] = "conflict"
  /\ nodeOwner' = releaseAll(nodeOwner, t)
  /\ pc' = [pc EXCEPT ![t] = "idle"]
  /\ acc' = [acc EXCEPT ![t] = "none"]
  /\ N' = [N EXCEPT ![t] = 0]
  /\ mflag' = [mflag EXCEPT ![t] = "none"]
  /\ ii' = [ii EXCEPT ![t] = 0]
  /\ acquired' = [acquired EXCEPT ![t] = <<>>]
  /\ casRes' = [casRes EXCEPT ![t] = "none"]
  /\ UNCHANGED <<topology, notGraphVars>>

\* the iteration of the context ends normally: its records are released
commit(t) ==
  /\ pc[t] = "idle"
  /\ \E n \in Nodes : nodeOwner[n].ptr = t
  /\ nodeOwner' = releaseAll(nodeOwner, t)
  /\ UNCHANGED <<pc, casRes, acc, N, mflag, ii, acquired, topology, notGraphVars>>

\* a graph loaded from any structural input, no accessor running
InitGraph ==
  /\ InitMgr
  /\ InitAccess
  /\ InitContexts
  /\ \E g \in FileGraphs : file = g /\ structureFromGraph(g)
  /\ loaded = {"LC_CSR"}
  /\ nodeData = [n \in Nodes |-> 0]
  /\ numNodes = NumNodes
  /\ numEdges = file.ind[NumNodes - 1]
  /\ inl = NoInline
  /\ lin = NoLinear
  /\ numa = NoNuma
  /\ activeThreads = 1
  /\ transpose = EmptyFile
  /\ inEdges = [NoInEdges EXCEPT !.edgeIndData = "Super", !.edgeDst = "Super",
                                 !.edgeData = "Super"]
  /\ fatal = "none"

NextGraph ==
  \/ \E t \in Threads, n \in Nodes, m \in MethodFlag : getData(t, n, m)
  \/ \E t \in Threads, n \in Nodes, m \in MethodFlag : edge_begin(t, n, m)
  \/ \E t \in Threads : G181(t)
  \/ \E t \in Threads, n \in Nodes, m \in MethodFlag : edge_end(t, n, m)
  \/ \E t \in Threads, n \in Nodes, m \in MethodFlag : out_edges(t, n, m)
  \/ \E t \in Threads : G189(t)
  \/ \E t \in Threads, n \in Nodes, m \in MethodFlag : in_edge_begin(t, n, m)
  \/ \E t \in Threads : G375(t)
  \/ \E t \in Threads, n \in Nodes, c \in Comparators, m \in MethodFlag :
       sortEdgesByEdgeData(t, n, c, m)
  \/ \E t \in Threads, n \in Nodes, c \in Comparators, m \in MethodFlag :
       sortEdges(t, n, c, m)
  \/ \E t \in Threads, e \in EdgeIdx, m \in MethodFlag : getEdgeData(t, e, m)
  \/ \E t \in Threads, e \in EdgeIdx : LC_getEdgeDst(t, e)
  \/ \E t \in Threads : Return(t)
  \/ \E t \in Threads : abort(t)
  \/ \E t \in Threads : commit(t)

SpecGraph == InitGraph /\ [][NextGraph]_vars

(* ------------------------- loading the layouts ------------------------- *)

\* the structural inputs with payloads: as FileGraphs, every edge carrying
\* any payload of EdgeTy
FileGraphsData ==
  {g \in [ind : [Nodes -> 0..NumEdges], dst : [EdgeIdx -> Nodes],
          data : [EdgeIdx -> EdgeTy]] :
     /\ \A n \in Nodes : n > 0 => g.ind[n - 1] <= g.ind[n]
     /\ g.ind[NumNodes - 1] = NumEdges}

\* FileGraph::size and FileGraph::sizeEdges
FileGraph_size == NumNodes

FileGraph_sizeEdges == file.ind[NumNodes - 1]

\* FileGraph::neighbor_begin / neighbor_end of node n, as edge indices
neighbor_begin(n) == IF n = 0 THEN 0 ELSE file.ind[n - 1]

neighbor_end(n) == file.ind[n]

\* the edge indices from a up to b, in order
RECURSIVE Range(_, _)
Range(a, b) == IF a >= b THEN <<>> ELSE <<a>> \o Range(a + 1, b)

\* the neighbor iterators of n from neighbor_begin to neighbor_end
neighbors(n) == Range(neighbor_begin(n), neighbor_end(n))

\* value of a default-constructed NodeTy, and what memory that was never
\* constructed holds
DefaultNodeTy == 0

Garbage == -1

\* LC_CSR_Graph::structureFromGraph called on a graph object: the arrays are
\* allocated (the nodes constructed) and copied from the input
LC_CSR_structureFromGraph ==
  /\ "LC_CSR" \notin loaded
  /\ loaded' = loaded \cup {"LC_CSR"}
  /\ numNodes' = FileGraph_size
  /\ numEdges' = FileGraph_sizeEdges
  /\ nodeData' = [n \in 0..(FileGraph_size - 1) |-> DefaultNodeTy]
  /\ edgeIndData' = file.ind
  /\ edgeDst' = file.dst
  /\ edgeData' = file.data
  /\ UNCHANGED <<file, inl, lin, numa, activeThreads, ctxtVars>>
  /\ UNCHANGED inoutVars
  /\ UNCHANGED <<mgrVars, mapVars, nodeOwner, acc, N, mflag, ii, acquired>>

\* variant: the payload of the edge is left as allocated
constructEdge_NoValue(e) == Garbage

\* if (EdgeInfo::has_value) edge->construct (graph.getEdgeData<EDV> (ni)):
\* the payload an edge is constructed with, EdgeTy having a value
constructEdge(e) == file.data[e]

\* variant: the edges of a node are laid out one slot late
InlineSlot_Shifted(curEdge) == curEdge + 1

\* the slot of edgeData the next edge is written to: *curEdge
InlineSlot(curEdge) == curEdge

\* lines 554-560 of LC_CSRInline_Graph::structureFromGraph: the edges of one
\* node, es being the neighbor iterators still to copy; a write past the
\* end of edgeData is recorded in ok
RECURSIVE InlineEdges(_, _, _)
InlineEdges(es, curEdge, g) ==
  IF es = <<>>
  THEN [g EXCEPT !.cur = curEdge]
  ELSE LET s == InlineSlot(curEdge)
       IN  InlineEdges(Tail(es), curEdge + 1,
             IF s \in DOMAIN g.dst
             THEN [g EXCEPT !.data[s] = constructEdge(Head(es)),
                            !.dst[s] = file.dst[Head(es)]]
             ELSE [g EXCEPT !.ok = FALSE])

\* lines 552-562: the loop over the nodes from n on, curEdge being g.cur
RECURSIVE InlineNodes(_, _)
InlineNodes(n, g) ==
  IF n >= FileGraph_size
  THEN g
  ELSE LET b == [g EXCEPT !.edgeBegin[n] = g.cur]
           e == InlineEdges(neighbors(n), b.cur, b)
       IN  InlineNodes(n + 1, [e EXCEPT !.edgeEnd[n] = e.cur])

\* LC_CSRInline_Graph::structureFromGraph: node_ids[i] is &nodeData[i], a
\* node pointer is modelled by its index in nodeData; nodeData is allocated
\* and constructed, edgeData is allocated without being constructed
LC_CSRInline_structureFromGraph ==
  /\ "LC_CSRInline" \notin loaded
  /\ loaded' = loaded \cup {"LC_CSRInline"}
  /\ LET g == InlineNodes(0,
                [edgeBegin |-> [n \in Nodes |-> 0],
                 edgeEnd |-> [n \in Nodes |-> 0],
                 nodeData |-> [n \in 0..(FileGraph_size - 1) |-> DefaultNodeTy],
                 dst |-> [e \in 0..(FileGraph_sizeEdges - 1) |-> Garbage],
                 data |-> [e \in 0..(FileGraph_sizeEdges - 1) |-> Garbage],
                 ok |-> TRUE, cur |-> 0])
     IN  inl' = [edgeBegin |-> g.edgeBegin, edgeEnd |-> g.edgeEnd,
                 nodeData |-> g.nodeData, dst |-> g.dst, data |-> g.data,
                 ok |-> g.ok,
                 numNodes |-> FileGraph_size, numEdges |-> FileGraph_sizeEdges,
                 life |-> [Alive EXCEPT !.destroyed =
                             [e \in 0..(FileGraph_sizeEdges - 1) |-> 0]]]
  /\ UNCHANGED <<file, nodeData, numNodes, numEdges, lin, numa, activeThreads, ctxtVars>>
  /\ UNCHANGED inoutVars
  /\ UNCHANGED <<mgrVars, mapVars, graphVars>>
\* one allocation unit of a packed buffer: obj is the address of the object
\* the unit belongs to (-1: none was constructed there), with the object's
\* fields (numEdges and the payload of a node; dst and the payload of an edge)
RawCell == [obj |-> -1, kind |-> "raw", numEdges |-> 0, dst |-> 0, data |-> Garbage]

\* the object of sz units at address a lies within the units lo .. hi - 1
fits(a, sz, lo, hi) == lo <= a /\ a + sz <= hi

\* storing an object of sz units at address a of memory m
put(m, a, sz, cell) ==
  [u \in DOMAIN m |-> IF a <= u /\ u < a + sz THEN [cell EXCEPT !.obj = a] ELSE m[u]]

\* the object of kind k and sz units at address a is as it was stored
intact(m, a, sz, k) ==
  \A u \in a..(a + sz - 1) : u \in DOMAIN m /\ m[u].obj = a /\ m[u].kind = k

\* NodeInfo::edgeBegin of the node at address a: the address after the node
NodeInfo_edgeBegin(a) == a + SizeofNodeInfo

\* NodeInfo::edgeEnd of a node at address a with k edges
NodeInfo_edgeEnd(a, k) == NodeInfo_edgeBegin(a) + k * SizeofEdgeInfo

\* variant: the next node follows the node at once, over its edges
NodeInfo_next_NoEdges(nd, ei) == nd + SizeofNodeInfo

\* the loop of NodeInfo::next: nd is advanced by whole nodes until it is
\* not below ei, the end of the edges
RECURSIVE NodeInfo_next(_, _)
NodeInfo_next(nd, ei) ==
  IF nd < ei THEN NodeInfo_next(nd + SizeofNodeInfo, ei) ELSE nd

\* variant: the node is given its number of edges but is not constructed
construct_Skipped == Garbage

\* NodeInfo::construct: the payload of a constructed node
construct == DefaultNodeTy

\* the node loop of LC_Linear_Graph::structureFromGraph (lines 715-720) and of
\* LC_Numa_Graph::AllocateNodes (lines 872-877) over the nodes n .. e - 1:
\* construct the node at g.cur, set its numEdges, enter it in nodes, go to
\* next ().  Only memory between g.lo and g.hi belongs to the buffer.
RECURSIVE PlaceNodes(_, _, _)
PlaceNodes(n, e, g) ==
  IF n >= e
  THEN g
  ELSE LET k == neighbor_end(n) - neighbor_begin(n)
           cell == [obj |-> g.cur, kind |-> "node", numEdges |-> k, dst |-> 0,
                    data |-> construct]
       IN  PlaceNodes(n + 1, e,
             [g EXCEPT !.mem = put(@, g.cur, SizeofNodeInfo, cell),
                       !.ok = @ /\ fits(g.cur, SizeofNodeInfo, g.lo, g.hi),
                       !.nodes[n] = g.cur,
                       !.cur = NodeInfo_next(g.cur, NodeInfo_edgeEnd(g.cur, k))])

\* the inner loop of the edge layout (lines 725-731, 899-905): the edges es of
\* one node are constructed from the input one after the other from address
\* edge on, each with the address of its destination node
RECURSIVE PlaceEdgesOf(_, _, _)
PlaceEdgesOf(es, edge, g) ==
  IF es = <<>>
  THEN g
  ELSE LET cell == [obj |-> edge, kind |-> "edge", numEdges |-> 0,
                    dst |-> g.nodes[file.dst[Head(es)]],
                    data |-> constructEdge(Head(es))]
       IN  PlaceEdgesOf(Tail(es), edge + SizeofEdgeInfo,
             [g EXCEPT !.mem = put(@, edge, SizeofEdgeInfo, cell),
                       !.ok = @ /\ fits(edge, SizeofEdgeInfo, g.lo, g.hi)])

\* the outer loop of the edge layout (lines 723-732, 897-906) over the nodes
\* n .. e - 1
RECURSIVE PlaceEdges(_, _, _)
PlaceEdges(n, e, g) ==
  IF n >= e
  THEN g
  ELSE PlaceEdges(n + 1, e,
         PlaceEdgesOf(neighbors(n), NodeInfo_edgeBegin(g.nodes[n]), g))

\* LC_Linear_Graph::structureFromGraph: one buffer of
\* sizeof (NodeInfo) * numNodes * 2 + sizeof (EdgeInfo) * numEdges units, the
\* nodes placed first, then their edges
LC_Linear_structureFromGraph ==
  /\ "LC_Linear" \notin loaded
  /\ loaded' = loaded \cup {"LC_Linear"}
  /\ LET size == SizeofNodeInfo * FileGraph_size * 2 + SizeofEdgeInfo * FileGraph_sizeEdges
         g0 == [nodes |-> [n \in Nodes |-> 0], mem |-> [u \in 0..(size - 1) |-> RawCell],
                ok |-> TRUE, cur |-> 0, lo |-> 0, hi |-> size]
         g1 == PlaceNodes(0, FileGraph_size, g0)
         g2 == PlaceEdges(0, FileGraph_size, g1)
     IN  lin' = [nodes |-> g2.nodes, mem |-> g2.mem, ok |-> g2.ok,
                 numNodes |-> FileGraph_size, numEdges |-> FileGraph_sizeEdges,
                 life |-> [Alive EXCEPT !.destroyed = [u \in DOMAIN g2.mem |-> 0]]]
  /\ UNCHANGED <<file, nodeData, numNodes, numEdges, inl, numa, activeThreads, ctxtVars>>
  /\ UNCHANGED inoutVars
  /\ UNCHANGED <<mgrVars, mapVars, graphVars>>
\* a DistributeInfo as PerThreadStorage constructs it
NoDistributeInfo == [numNodes |-> 0, numEdges |-> 0, begin |-> 0, end |-> 0]

\* the loops of LC_Numa_Graph::distribute (lines 811-837) from thread tid and
\* node at (the iterator ii) on; s holds the locals curSize, last, nnodes, nedges, runningNodes,
\* runningEdges and the DistributeInfo d of every thread
RECURSIVE distributeFrom(_, _, _, _, _)
distributeFrom(tid, at, num, blockSize, s) ==
  IF tid + 1 >= num
  THEN [s.d EXCEPT ![tid] = [numNodes |-> FileGraph_size - s.runningNodes,
                             numEdges |-> FileGraph_sizeEdges - s.runningEdges,
                             begin |-> s.last, end |-> FileGraph_size]]
  ELSE IF at = FileGraph_size
  THEN distributeFrom(tid + 1, at, num, blockSize, s)
  ELSE IF s.curSize >= (tid + 1) * blockSize
  THEN distributeFrom(tid + 1, at, num, blockSize,
         [s EXCEPT !.d[tid] = [numNodes |-> s.nnodes, numEdges |-> s.nedges,
                               begin |-> s.last, end |-> at],
                   !.runningNodes = @ + s.nnodes,
                   !.runningEdges = @ + s.nedges,
                   !.nnodes = 0, !.nedges = 0, !.last = at])
  ELSE LET nneighbors == neighbor_end(at) - neighbor_begin(at)
       IN  distributeFrom(tid, at + 1, num, blockSize,
             [s EXCEPT !.nedges = @ + nneighbors,
                       !.nnodes = @ + 1,
                       !.curSize = @ + SizeofNodeInfo + SizeofEdgeInfo * nneighbors])

\* variant: what is left when the last threshold was reached is given to
\* no thread
distribute_DropRemainder(num) ==
  LET total == SizeofNodeInfo * FileGraph_size + SizeofEdgeInfo * FileGraph_sizeEdges
      d == distributeFrom(0, 0, num, total \div num,
             [d |-> [tid \in 0..(num - 1) |-> NoDistributeInfo],
              curSize |-> 0, last |-> 0, nnodes |-> 0, nedges |-> 0,
              runningNodes |-> 0, runningEdges |-> 0])
  IN  [d EXCEPT ![num - 1] = NoDistributeInfo]

\* variant: the chunk of the last thread starts at the first node (last is
\* not moved on when a chunk is closed)
distribute_LastFromStart(num) ==
  LET total == SizeofNodeInfo * FileGraph_size + SizeofEdgeInfo * FileGraph_sizeEdges
      d == distributeFrom(0, 0, num, total \div num,
             [d |-> [tid \in 0..(num - 1) |-> NoDistributeInfo],
              curSize |-> 0, last |-> 0, nnodes |-> 0, nedges |-> 0,
              runningNodes |-> 0, runningEdges |-> 0])
  IN  [d EXCEPT ![num - 1].begin = 0]

\* LC_Numa_Graph::distribute: the nodes are divided among num threads in
\* chunks of about total / num units
distribute(num) ==
  LET total == SizeofNodeInfo * FileGraph_size + SizeofEdgeInfo * FileGraph_sizeEdges
  IN  distributeFrom(0, 0, num, total \div num,
        [d |-> [tid \in 0..(num - 1) |-> NoDistributeInfo],
         curSize |-> 0, last |-> 0, nnodes |-> 0, nedges |-> 0,
         runningNodes |-> 0, runningEdges |-> 0])

\* the buffer size AllocateNodes asks for (lines 856-859)
numaSize(d) ==
  SizeofHeader * 2 + SizeofNodeInfo * d.numNodes * 2 + SizeofEdgeInfo * d.numEdges

\* the address largeAlloc returns to thread tid: the buffers of the threads
\* follow one another
RECURSIVE numaBase(_, _)
numaBase(dinfo, tid) ==
  IF tid = 0 THEN 0 ELSE numaBase(dinfo, tid - 1) + numaSize(dinfo[tid - 1])

\* AllocateNodes::operator() (lines 851-878) of the threads tid .. num - 1,
\* one after the other (each writes its own buffer and its own entries of
\* nodes): the zeroed buffer starts with the Header, begin is the address
\* after it, end the address after the last node of the chunk
RECURSIVE AllocateNodes(_, _, _, _)
AllocateNodes(tid, num, dinfo, g) ==
  IF tid >= num
  THEN g
  ELSE LET d == dinfo[tid]
           h == numaBase(dinfo, tid)
           b == h + SizeofHeader
           hdr == [obj |-> h, kind |-> "header", numEdges |-> 0, dst |-> 0, data |-> 0]
           g0 == [g EXCEPT !.mem = put(@, h, SizeofHeader, hdr),
                           !.cur = b, !.lo = h, !.hi = h + numaSize(d)]
           g1 == IF d.numNodes = 0 THEN g0 ELSE PlaceNodes(d.begin, d.end, g0)
       IN  AllocateNodes(tid + 1, num, dinfo,
             [g1 EXCEPT !.headers[tid] = [begin |-> b, end |-> g1.cur]])

\* AllocateEdges::operator() (lines 890-907) of the threads tid .. num - 1
RECURSIVE AllocateEdges(_, _, _, _)
AllocateEdges(tid, num, dinfo, g) ==
  IF tid >= num
  THEN g
  ELSE LET d == dinfo[tid]
           h == numaBase(dinfo, tid)
           g0 == [g EXCEPT !.lo = h, !.hi = h + numaSize(d)]
       IN  AllocateEdges(tid + 1, num, dinfo,
             IF d.numNodes = 0 THEN g0 ELSE PlaceEdges(d.begin, d.end, g0))

\* LC_Numa_Graph::structureFromGraph (lines 1056-1067): distribute, then
\* AllocateNodes on every active thread, then AllocateEdges on every one
LC_Numa_structureFromGraph ==
  /\ "LC_Numa" \notin loaded
  /\ loaded' = loaded \cup {"LC_Numa"}
  /\ LET num == activeThreads
         dinfo == distribute(num)
         size == numaBase(dinfo, num - 1) + numaSize(dinfo[num - 1])
         g0 == [nodes |-> [n \in Nodes |-> 0], mem |-> [u \in 0..(size - 1) |-> RawCell],
                ok |-> TRUE, cur |-> 0, lo |-> 0, hi |-> 0,
                headers |-> NoNuma.headers]
         g1 == AllocateNodes(0, num, dinfo, g0)
         g2 == AllocateEdges(0, num, dinfo, g1)
     IN  numa' = [nodes |-> g2.nodes, mem |-> g2.mem, ok |-> g2.ok,
                  numNodes |-> FileGraph_size, numEdges |-> FileGraph_sizeEdges,
                  headers |-> g2.headers,
                  life |-> [Alive EXCEPT !.destroyed = [u \in DOMAIN g2.mem |-> 0]],
                  build |-> [phase |-> "done", nodesDone |-> 0..(num - 1),
                             edgesDone |-> 0..(num - 1)]]
  /\ UNCHANGED <<file, nodeData, numNodes, numEdges, inl, lin, activeThreads, ctxtVars>>
  /\ UNCHANGED inoutVars
  /\ UNCHANGED <<mgrVars, mapVars, graphVars>>

\* four graph objects, one of each layout, none loaded yet; the input is any
\* structural graph and any number of threads is active
InitLayouts ==
  /\ InitMgr
  /\ InitAccess
  /\ InitContexts
  /\ edgeIndData = [n \in Nodes |-> 0]
  /\ edgeDst = <<>>
  /\ edgeData = <<>>
  /\ loaded = {}
  /\ nodeData = <<>>
  /\ numNodes = 0
  /\ numEdges = 0
  /\ inl = NoInline
  /\ lin = NoLinear
  /\ numa = NoNuma
  /\ file \in FileGraphsData
  /\ activeThreads \in 1..MaxActiveThreads
  /\ NoInOut

NextLoad ==
  \/ LC_CSR_structureFromGraph
  \/ LC_CSRInline_structureFromGraph
  \/ LC_Linear_structureFromGraph
  \/ LC_Numa_structureFromGraph

SpecLoad == InitLayouts /\ [][NextLoad]_vars

\* the out-edges of node n read back from LC_CSR_Graph with edge_begin,
\* edge_end, getEdgeDst and getEdgeData: one [dst, data] per edge, in order
OutEdges_CSR(n) ==
  [i \in 1..(raw_neighbor_end(n) - raw_neighbor_begin(n)) |->
     [dst |-> edgeDst[raw_neighbor_begin(n) + i - 1],
      data |-> edgeData[raw_neighbor_begin(n) + i - 1]]]

\* the same from LC_CSRInline_Graph: the edges from N->edgeBegin up to
\* N->edgeEnd, ni->dst and ni->get ()
OutEdges_Inline(n) ==
  [i \in 1..(inl.edgeEnd[n] - inl.edgeBegin[n]) |->
     [dst |-> inl.dst[inl.edgeBegin[n] + i - 1],
      data |-> inl.data[inl.edgeBegin[n] + i - 1]]]

\* the structural index of the node at address p of a packed layout g: the
\* position of p in nodes, -1 if p is not the address of exactly one node
nodeIndex(g, p) ==
  IF Cardinality({n \in Nodes : g.nodes[n] = p}) = 1
  THEN CHOOSE n \in Nodes : g.nodes[n] = p
  ELSE -1

\* what is read at address a of a packed layout where an object of kind k
\* and sz units is expected: the object stored there, or raw memory
load(g, a, sz, k) == IF intact(g.mem, a, sz, k) THEN g.mem[a] ELSE RawCell

\* the same from LC_Linear_Graph and LC_Numa_Graph (g): the edges from
\* N->edgeBegin () up to N->edgeEnd (), N being nodes[n]
OutEdges_Packed(g, n) ==
  LET N0 == g.nodes[n]
      nd == load(g, N0, SizeofNodeInfo, "node")
  IN  [i \in 1..nd.numEdges |->
         LET e == load(g, NodeInfo_edgeBegin(N0) + (i - 1) * SizeofEdgeInfo,
                       SizeofEdgeInfo, "edge")
         IN  [dst |-> IF e.kind = "edge" THEN nodeIndex(g, e.dst) ELSE -1,
              data |-> e.data]]

\* the out-edges of n as layout L hands them out
OutEdges(L, n) ==
  CASE L = "LC_CSR" -> OutEdges_CSR(n)
    [] L = "LC_CSRInline" -> OutEdges_Inline(n)
    [] L = "LC_Linear" -> OutEdges_Packed(lin, n)
    [] L = "LC_Numa" -> OutEdges_Packed(numa, n)

\* the payload getData returns for node n of layout L
NodePayload(L, n) ==
  CASE L = "LC_CSR" -> nodeData[n]
    [] L = "LC_CSRInline" -> inl.nodeData[n]
    [] L = "LC_Linear" -> load(lin, lin.nodes[n], SizeofNodeInfo, "node").data
    [] L = "LC_Numa" -> load(numa, numa.nodes[n], SizeofNodeInfo, "node").data

\* the neighbor sequence of n in the input: one [dst, data] per neighbor
FileEdges(n) ==
  [i \in 1..(neighbor_end(n) - neighbor_begin(n)) |->
     [dst |-> file.dst[neighbor_begin(n) + i - 1],
      data |-> file.data[neighbor_begin(n) + i - 1]]]

(* ------------- LC_Numa_Graph::structureFromGraph, thread by thread ----- *)

\* the threads on_each runs a functor on
ActiveTids == 0..(activeThreads - 1)

\* the working record the layout operators take, made from the graph object
NumaWork == [nodes |-> numa.nodes, mem |-> numa.mem, ok |-> numa.ok,
             cur |-> 0, lo |-> 0, hi |-> 0, headers |-> numa.headers]

\* lines 1057-1063: numNodes, numEdges, distribute, nodes.allocate; the
\* buffers the threads will allocate are laid out one after the other
Numa_begin ==
  /\ "LC_Numa" \notin loaded
  /\ numa.build.phase = "none"
  /\ LET dinfo == distribute(activeThreads)
         size == numaBase(dinfo, activeThreads - 1) + numaSize(dinfo[activeThreads - 1])
     IN  numa' = [numa EXCEPT !.numNodes = FileGraph_size,
                              !.numEdges = FileGraph_sizeEdges,
                              !.nodes = [n \in Nodes |-> NULL],
                              !.mem = [u \in 0..(size - 1) |-> RawCell],
                              !.life = [Alive EXCEPT !.destroyed =
                                          [u \in 0..(size - 1) |-> 0]],
                              !.build = [NotBuilding EXCEPT !.phase = "on_each"]]
  /\ UNCHANGED <<file, loaded, nodeData, numNodes, numEdges, inl, lin, activeThreads, ctxtVars>>
  /\ UNCHANGED inoutVars
  /\ UNCHANGED <<mgrVars, mapVars, graphVars>>

\* AllocateNodes::operator () (lines 851-878) run by on_each on thread tid
Numa_AllocateNodes(tid) ==
  /\ numa.build.phase = "on_each"
  /\ tid \in ActiveTids \ numa.build.nodesDone
  /\ LET g == AllocateNodes(tid, tid + 1, distribute(activeThreads), NumaWork)
     IN  numa' = [numa EXCEPT !.nodes = g.nodes, !.mem = g.mem, !.ok = g.ok,
                              !.headers = g.headers,
                              !.build.nodesDone = @ \cup {tid}]
  /\ UNCHANGED <<file, loaded, nodeData, numNodes, numEdges, inl, lin, activeThreads, ctxtVars>>
  /\ UNCHANGED inoutVars
  /\ UNCHANGED <<mgrVars, mapVars, graphVars>>

\* variant: a thread starts on its edges as soon as its own nodes are placed
on_each_returned_NoBarrier(tid) == tid \in numa.build.nodesDone

\* Galois::on_each (AllocateNodes (...)) at line 1065 has returned: the
\* functor has finished on every active thread.  Line 1066 follows it in
\* structureFromGraph, so no thread runs AllocateEdges before.
on_each_returned(tid) == numa.build.nodesDone = ActiveTids

\* AllocateEdges::operator () (lines 890-907) run by on_each on thread tid
Numa_AllocateEdges(tid) ==
  /\ numa.build.phase = "on_each"
  /\ on_each_returned(tid)
  /\ tid \in ActiveTids \ numa.build.edgesDone
  /\ LET g == AllocateEdges(tid, tid + 1, distribute(activeThreads), NumaWork)
     IN  numa' = [numa EXCEPT !.mem = g.mem, !.ok = g.ok,
                              !.build.edgesDone = @ \cup {tid}]
  /\ UNCHANGED <<file, loaded, nodeData, numNodes, numEdges, inl, lin, activeThreads, ctxtVars>>
  /\ UNCHANGED inoutVars
  /\ UNCHANGED <<mgrVars, mapVars, graphVars>>

\* the second on_each has returned and structureFromGraph with it
Numa_end ==
  /\ numa.build.phase = "on_each"
  /\ numa.build.edgesDone = ActiveTids
  /\ numa' = [numa EXCEPT !.build.phase = "done"]
  /\ loaded' = loaded \cup {"LC_Numa"}
  /\ UNCHANGED <<file, nodeData, numNodes, numEdges, inl, lin, activeThreads, ctxtVars>>
  /\ UNCHANGED inoutVars
  /\ UNCHANGED <<mgrVars, mapVars, graphVars>>

NextNumaPar ==
  \/ Numa_begin
  \/ \E tid \in ActiveTids : Numa_AllocateNodes(tid)
  \/ \E tid \in ActiveTids : Numa_AllocateEdges(tid)
  \/ Numa_end

SpecNumaPar == InitLayouts /\ [][NextNumaPar]_vars

(* --------------------- LC_Numa_Graph::local_iterator ------------------- *)

\* headers->size (): the threads PerThreadStorage has a slot for
headers_size == MaxActiveThreads

\* *headers->getRemote (tid): the Header of thread tid, as tid + 1; NULL for a
\* thread that AllocateNodes has not run on
headerOf(tid) == IF numa.headers[tid].begin = 0 THEN NULL ELSE tid + 1

\* local_iterator::init_thread (lines 926-930) on iterator it = [tid, p, v]
init_thread(i) ==
  LET p == IF i.tid < headers_size THEN headerOf(i.tid) ELSE NULL
  IN  [tid |-> i.tid, p |-> p,
       v |-> IF p # NULL THEN numa.headers[p - 1].begin ELSE NULL]

\* local_iterator::advance_thread (lines 940-946)
RECURSIVE advance_thread(_)
advance_thread(i) ==
  IF i.tid < headers_size
  THEN LET j == init_thread([i EXCEPT !.tid = @ + 1])
       IN  IF j.p # NULL THEN j ELSE advance_thread(j)
  ELSE i

\* local_iterator::local_iterator (headers, tid), lines 955-961
local_iterator(tid) ==
  LET i == init_thread([tid |-> tid, p |-> NULL, v |-> NULL])
  IN  IF i.p # NULL THEN i ELSE advance_thread(i)

\* local_iterator::advance (lines 932-951): advance_local, v = v->next (),
\* reads numEdges of the record at v, which is 0 in memory that is still as
\* memset left it; advance_thread once v is p->end
advance(i) ==
  IF i.p # NULL
  THEN LET k == load(numa, i.v, SizeofNodeInfo, "node").numEdges
           v == NodeInfo_next(i.v, NodeInfo_edgeEnd(i.v, k))
       IN  IF v # numa.headers[i.p - 1].end
           THEN [i EXCEPT !.v = v]
           ELSE advance_thread([i EXCEPT !.v = v])
  ELSE advance_thread(i)

\* LC_Numa_Graph::local_begin and local_end called on thread tid
local_begin(tid) == local_iterator(tid)

local_end(tid) == local_iterator(tid + 1)

\* for (i = local_begin (); i != local_end (); ++i): the GraphNodes *i from
\* iterator i on, up to iterator e; ok is FALSE once *i is an address at
\* which no node was constructed (the loop is then left to run on through
\* memory that holds no nodes)
RECURSIVE LocalWalk(_, _)
LocalWalk(i, e) ==
  IF i = e THEN [seq |-> <<>>, ok |-> TRUE]
  ELSE IF ~intact(numa.mem, i.v, SizeofNodeInfo, "node")
  THEN [seq |-> <<i.v>>, ok |-> FALSE]
  ELSE LET r == LocalWalk(advance(i), e)
       IN  [seq |-> <<i.v>> \o r.seq, ok |-> r.ok]

\* the local iteration of thread tid
LocalNodes(tid) == LocalWalk(local_begin(tid), local_end(tid))

(* ------------------- the destructors of the inline layouts ------------- *)

\* the end of the edge range a loop over edgeData stops at when it started
\* at slot ii and runs to ei with ++ii and ii != ei: ei itself when it is
\* not before ii; a loop that started past ei runs through the whole array
\* and on behind it
loopEnd(ii0, ei) == IF ii0 <= ei THEN ei ELSE NumEdges + 2

\* ii->destroy () of every slot from ii0 up to, not including, ei: the calls
\* are counted per slot of edgeData and a call on a slot behind the array
\* sets outside
destroyRange(l, ii0, ei) ==
  [l EXCEPT !.destroyed = [e \in DOMAIN @ |->
                             IF ii0 <= e /\ e < loopEnd(ii0, ei) THEN @[e] + 1 ELSE @[e]],
            !.outside = @ \/ \E e \in ii0..(loopEnd(ii0, ei) - 1) :
                               e \notin DOMAIN l.destroyed]

\* what endNode->edgeEnd evaluates to: endNode is &nodeData[numNodes] (line
\* 548), the address behind the last node, so the field is read from memory
\* that holds no node record and may be any address
endNode_edgeEnd == 0..(NumEdges + 1)

\* ~LC_CSRInline_Graph (lines 480-487) of a loaded graph whose EdgeTy has a
\* value: nothing is done when nodeData.data () is endNode (no node);
\* otherwise every slot from nodeData[0].edgeBegin to endNode->edgeEnd is
\* destroyed
LC_CSRInline_dtor ==
  /\ "LC_CSRInline" \in loaded
  /\ ~inl.life.dead
  /\ IF inl.numNodes = 0
     THEN inl' = [inl EXCEPT !.life.dead = TRUE]
     ELSE \E ei \in endNode_edgeEnd :
            inl' = [inl EXCEPT !.life = [destroyRange(@, inl.edgeBegin[0], ei)
                                           EXCEPT !.dead = TRUE, !.pastEnd = TRUE]]
  /\ UNCHANGED <<file, loaded, nodeData, numNodes, numEdges, lin, numa, activeThreads, ctxtVars>>
  /\ UNCHANGED inoutVars
  /\ UNCHANGED <<mgrVars, mapVars, graphVars>>

\* n->destruct () and edgeBegin->destroy () on the object at address a of a
\* packed layout g, which is expected to be of kind k and sz units: the call
\* is counted at the address; outside is set when no such object is there
destroyAt(g, l, a, sz, k) ==
  IF intact(g.mem, a, sz, k)
  THEN [l EXCEPT !.destroyed[a] = @ + 1]
  ELSE [l EXCEPT !.outside = TRUE]

\* while (edgeBegin != edgeEnd) { edgeBegin->destroy (); ++edgeBegin; }
RECURSIVE destroyEdges(_, _, _, _)
destroyEdges(g, l, edgeBegin, edgeEnd) ==
  IF edgeBegin = edgeEnd
  THEN l
  ELSE destroyEdges(g, destroyAt(g, l, edgeBegin, SizeofEdgeInfo, "edge"),
                    edgeBegin + SizeofEdgeInfo, edgeEnd)

\* the loop over nodes of ~LC_Linear_Graph (lines 627-639) and of
\* ~LC_Numa_Graph (lines 978-990) from entry i of nodes on: the edge range
\* of the node is read, the node is destructed, its edges are destroyed
RECURSIVE destroyNodes(_, _, _)
destroyNodes(g, l, i) ==
  IF i >= g.numNodes
  THEN l
  ELSE LET n == g.nodes[i]
           nd == load(g, n, SizeofNodeInfo, "node")
           edgeBegin == NodeInfo_edgeBegin(n)
           edgeEnd == NodeInfo_edgeEnd(n, nd.numEdges)
           l1 == [destroyAt(g, l, n, SizeofNodeInfo, "node")
                    EXCEPT !.pastEnd = @ \/ i \notin Nodes]
       IN  destroyNodes(g, destroyEdges(g, l1, edgeBegin, edgeEnd), i + 1)

\* ~LC_Linear_Graph (lines 626-640) of a loaded graph
LC_Linear_dtor ==
  /\ "LC_Linear" \in loaded
  /\ ~lin.life.dead
  /\ lin' = [lin EXCEPT !.life = [destroyNodes(lin, @, 0) EXCEPT !.dead = TRUE]]
  /\ UNCHANGED <<file, loaded, nodeData, numNodes, numEdges, inl, numa, activeThreads, ctxtVars>>
  /\ UNCHANGED inoutVars
  /\ UNCHANGED <<mgrVars, mapVars, graphVars>>

\* ~LC_Numa_Graph (lines 977-996) of a loaded graph: the same loop, then the
\* buffer of every thread is given back
LC_Numa_dtor ==
  /\ "LC_Numa" \in loaded
  /\ ~numa.life.dead
  /\ numa' = [numa EXCEPT !.life = [destroyNodes(numa, @, 0) EXCEPT !.dead = TRUE]]
  /\ UNCHANGED <<file, loaded, nodeData, numNodes, numEdges, inl, lin, activeThreads, ctxtVars>>
  /\ UNCHANGED inoutVars
  /\ UNCHANGED <<mgrVars, mapVars, graphVars>>

\* graphs are loaded into the layouts and destructed
NextDtor ==
  \/ NextLoad
  \/ LC_CSRInline_dtor
  \/ LC_Linear_dtor
  \/ LC_Numa_dtor

SpecDtor == InitLayouts /\ [][NextDtor]_vars

(* -------------------- sorting the edges of a loaded graph -------------- *)

\* an LC_CSR_Graph loaded from any structural input with payloads, no
\* accessor running
InitSort ==
  /\ InitMgr
  /\ InitAccess
  /\ InitContexts
  /\ \E g \in FileGraphsData : file = g /\ structureFromGraph(g)
  /\ loaded = {"LC_CSR"}
  /\ nodeData = [n \in Nodes |-> 0]
  /\ numNodes = NumNodes
  /\ numEdges = file.ind[NumNodes - 1]
  /\ inl = NoInline
  /\ lin = NoLinear
  /\ numa = NoNuma
  /\ activeThreads = 1
  /\ NoInOut

\* the sorts, called by any context under any policy
NextSort ==
  \/ \E t \in Threads, n \in Nodes, c \in Comparators, m \in MethodFlag :
       sortEdgesByEdgeData(t, n, c, m)
  \/ \E t \in Threads, n \in Nodes, c \in Comparators, m \in MethodFlag :
       sortEdges(t, n, c, m)
  \/ \E t \in Threads : Return(t)
  \/ \E t \in Threads : abort(t)
  \/ \E t \in Threads : commit(t)

SpecSort == InitSort /\ [][NextSort]_vars

(* ------------------- every operation on a loaded graph ----------------- *)

\* the values of the node payload type NodeTy (instantiated with int)
NodeTy == 0..MaxData

\* a write through the node_data_reference getData returned (line 150):
\* g.getData (N, mflag) = v
storeData(t, v) ==
  /\ pc[t] = "ret"
  /\ acc[t] = "getData"
  /\ nodeData[N[t]] # v
  /\ nodeData' = [nodeData EXCEPT ![N[t]] = v]
  /\ UNCHANGED <<file, loaded, inl, lin, numa, activeThreads, ctxtVars, numNodes, numEdges>>
  /\ UNCHANGED inoutVars
  /\ UNCHANGED <<mgrVars, mapVars, graphVars>>

\* a write through the edge_data_reference getEdgeData returned (line 159):
\* g.getEdgeData (ni, mflag) = v
storeEdgeData(t, v) ==
  /\ pc[t] = "ret"
  /\ acc[t] = "getEdgeData"
  /\ edgeData[ii[t]] # v
  /\ edgeData' = [edgeData EXCEPT ![ii[t]] = v]
  /\ UNCHANGED <<nodeOwner, edgeIndData, edgeDst, acc, N, mflag, ii, acquired>>
  /\ UNCHANGED <<mgrVars, mapVars, loadVars>>

\* no other context is inside an operation
Alone(t) == \A u \in Threads \ {t} : pc[u] = "idle"

\* the operations on a loaded LC_CSR_Graph, run one after the other by any
\* context: the accessors, the sorts, the writes of the payloads, and the
\* contexts releasing what they hold
NextTopo ==
  \/ \E t \in Threads, n \in Nodes, m \in MethodFlag : Alone(t) /\ getData(t, n, m)
  \/ \E t \in Threads, n \in Nodes, m \in MethodFlag : Alone(t) /\ edge_begin(t, n, m)
  \/ \E t \in Threads : G181(t)
  \/ \E t \in Threads, n \in Nodes, m \in MethodFlag : Alone(t) /\ edge_end(t, n, m)
  \/ \E t \in Threads, e \in EdgeIdx, m \in MethodFlag : Alone(t) /\ getEdgeData(t, e, m)
  \/ \E t \in Threads, e \in EdgeIdx : Alone(t) /\ LC_getEdgeDst(t, e)
  \/ \E t \in Threads, n \in Nodes, c \in Comparators, m \in MethodFlag :
       Alone(t) /\ sortEdgesByEdgeData(t, n, c, m)
  \/ \E t \in Threads, n \in Nodes, c \in Comparators, m \in MethodFlag :
       Alone(t) /\ sortEdges(t, n, c, m)
  \/ \E t \in Threads, v \in NodeTy : storeData(t, v)
  \/ \E t \in Threads, v \in EdgeTy : storeEdgeData(t, v)
  \/ \E t \in Threads : Return(t)
  \/ \E t \in Threads : abort(t)
  \/ \E t \in Threads : commit(t)

SpecTopo == InitSort /\ [][NextTopo]_vars

(* ------------------------- LC_CSR_InOutGraph --------------------------- *)

\* the structural graphs of nn nodes and ne edges, with payloads
FileGraphsOf(nn, ne) ==
  {g \in [ind : [0..(nn - 1) -> 0..ne], dst : [0..(ne - 1) -> 0..(nn - 1)],
          data : [0..(ne - 1) -> EdgeTy]] :
     /\ \A n \in 1..(nn - 1) : g.ind[n - 1] <= g.ind[n]
     /\ nn > 0 => g.ind[nn - 1] = ne}

\* the graphs that can be handed in as the transpose: of any size up to the
\* bounds
Transposes ==
  UNION {FileGraphsOf(nn, ne) : nn \in 0..NumNodes, ne \in 0..NumEdges}

\* FileGraph::size and FileGraph::sizeEdges of structural graph g
sizeOf(g) == Cardinality(DOMAIN g.ind)

sizeEdgesOf(g) == Cardinality(DOMAIN g.dst)

\* variant: only the numbers of nodes are compared
sizeMismatch_NodesOnly(graph, tr) ==
  IF sizeOf(graph) # sizeOf(tr) THEN "nodes" ELSE "none"

\* lines 410-414: the GALOIS_ERROR (true, ...) that the sizes of graph and
\* transpose raise, "none" if they agree
sizeMismatch(graph, tr) ==
  IF sizeOf(graph) # sizeOf(tr) THEN "nodes"
  ELSE IF sizeEdgesOf(graph) # sizeEdgesOf(tr) THEN "edges"
  ELSE "none"

\* Super::structureFromGraph (graph): the out-edge arrays of the LC_CSR_Graph
\* base are allocated and copied from the input; how is the overload of
\* LC_CSR_InOutGraph::structureFromGraph that makes the call
Super_structureFromGraph(how) ==
  /\ loaded' = loaded \cup {"LC_CSR", how}
  /\ numNodes' = FileGraph_size
  /\ numEdges' = FileGraph_sizeEdges
  /\ nodeData' = [n \in 0..(FileGraph_size - 1) |-> DefaultNodeTy]
  /\ edgeIndData' = file.ind
  /\ edgeDst' = file.dst
  /\ edgeData' = file.data

\* InEdges::initialize (FileGraph& transpose), lines 300-318: the pointers are
\* set to the stores, the stores allocated and copied from the transpose
InEdges_initialize(tr) ==
  [edgeIndData |-> "Store", edgeDst |-> "Store", edgeData |-> "Store",
   edgeIndDataStore |-> tr.ind, edgeDstStore |-> tr.dst, edgeDataStore |-> tr.data]

\* variant: the in-edges get stores of their own, copied from the out-edges
InEdges_initialize_symmetric_Copy ==
  [edgeIndData |-> "Store", edgeDst |-> "Store", edgeData |-> "Store",
   edgeIndDataStore |-> file.ind, edgeDstStore |-> file.dst,
   edgeDataStore |-> file.data]

\* InEdges::initialize (edgeIndDataPtr, edgeDstPtr, edgeDataPtr, true), lines
\* 289-294: the pointers are set to the arrays of the out-edges
InEdges_initialize_symmetric ==
  [inEdges EXCEPT !.edgeIndData = "Super", !.edgeDst = "Super", !.edgeData = "Super"]

\* what the two structureFromGraph of LC_CSR_InOutGraph leave alone
notInOutVars == <<file, transpose, inl, lin, numa, activeThreads, ctxtVars, mgrVars, mapVars,
                  nodeOwner, acc, N, mflag, ii, acquired>>

\* LC_CSR_InOutGraph::structureFromGraph (graph, transpose), lines 409-418
InOut_structureFromGraph_transpose ==
  /\ fatal = "none"
  /\ "LC_CSR" \notin loaded
  /\ IF sizeMismatch(file, transpose) # "none"
     THEN /\ fatal' = sizeMismatch(file, transpose)
          /\ UNCHANGED <<loaded, numNodes, numEdges, nodeData, topology, inEdges>>
     ELSE /\ Super_structureFromGraph("transpose")
          /\ inEdges' = InEdges_initialize(transpose)
          /\ UNCHANGED fatal
  /\ UNCHANGED notInOutVars

\* variant: the in-edges are initialized before the out-edge arrays are laid
\* out, so that the abort leaves the graph as it was
InOut_structureFromGraph_symmetric_InitFirst(symmetric) ==
  /\ fatal = "none"
  /\ "LC_CSR" \notin loaded
  /\ IF symmetric
     THEN /\ Super_structureFromGraph("symmetric")
          /\ inEdges' = InEdges_initialize_symmetric
          /\ UNCHANGED fatal
     ELSE /\ fatal' = "abort"
          /\ UNCHANGED <<loaded, numNodes, numEdges, nodeData, topology, inEdges>>
  /\ UNCHANGED notInOutVars

\* LC_CSR_InOutGraph::structureFromGraph (graph, symmetric), lines 421-424;
\* InEdges::initialize calls abort () when symmetric is false (line 297)
InOut_structureFromGraph_symmetric(symmetric) ==
  /\ fatal = "none"
  /\ "LC_CSR" \notin loaded
  /\ Super_structureFromGraph("symmetric")
  /\ IF symmetric
     THEN inEdges' = InEdges_initialize_symmetric /\ UNCHANGED fatal
     ELSE fatal' = "abort" /\ UNCHANGED inEdges
  /\ UNCHANGED notInOutVars

\* an LC_CSR_InOutGraph object not yet loaded, any structural graph as the
\* input and any as the transpose
InitInOut ==
  /\ InitMgr
  /\ InitAccess
  /\ InitContexts
  /\ edgeIndData = [n \in Nodes |-> 0]
  /\ edgeDst = <<>>
  /\ edgeData = <<>>
  /\ loaded = {}
  /\ nodeData = <<>>
  /\ numNodes = 0
  /\ numEdges = 0
  /\ inl = NoInline
  /\ lin = NoLinear
  /\ numa = NoNuma
  /\ activeThreads = 1
  /\ file \in FileGraphsData
  /\ transpose \in Transposes
  /\ inEdges = NoInEdges
  /\ fatal = "none"

NextInOut ==
  \/ InOut_structureFromGraph_transpose
  \/ \E symmetric \in BOOLEAN : InOut_structureFromGraph_symmetric(symmetric)

SpecInOut == InitInOut /\ [][NextInOut]_vars

(* ------------------- the two views of LC_CSR_InOutGraph ---------------- *)

\* the source of edge e of structural graph g
srcOf(g, e) ==
  CHOOSE n \in DOMAIN g.ind : (IF n = 0 THEN 0 ELSE g.ind[n - 1]) <= e /\ e < g.ind[n]

\* the edge of g at position k of its transpose: the edges ordered by
\* destination, those of one destination as g stores them
edgeAt(g, k) ==
  CHOOSE e \in DOMAIN g.dst :
    Cardinality({x \in DOMAIN g.dst :
                   g.dst[x] < g.dst[e] \/ (g.dst[x] = g.dst[e] /\ x < e)}) = k

\* the transpose of g as the loader writes it: every edge reversed, with its
\* payload
Transpose(g) ==
  [ind |-> [n \in DOMAIN g.ind |-> Cardinality({e \in DOMAIN g.dst : g.dst[e] <= n})],
   dst |-> [k \in DOMAIN g.dst |-> srcOf(g, edgeAt(g, k))],
   data |-> [k \in DOMAIN g.dst |-> g.data[edgeAt(g, k)]]]

\* the graph is loaded with its in-edges and the program runs
Ready == "LC_CSR" \in loaded /\ fatal = "none"

\* what the operations on the in-edges leave alone besides the arrays the
\* pointers of inEdges lead to
notInEdgeVars == <<owner, live, lockable, allNItems, larg, ni, ret, mode, todo, resets,
                   claims, assertOk, danglingUse, mapVars, file, loaded, inl, lin, numa,
                   activeThreads, ctxtVars, nodeData, numNodes, numEdges, transpose, fatal,
                   edgeIndData>>

\* std::sort (inEdges.edge_sort_begin (n), inEdges.edge_sort_end (n), comp):
\* as std_sort, on *inEdges.edgeDst and *inEdges.edgeData
InEdges_sort(n, c, key) ==
  LET R == raw_begin(n)..(raw_end(n) - 1)
      E == DOMAIN InEdges_edgeDst
  IN  \E p \in Perms(R) :
        /\ \A i, j \in R : i < j => ~before(c, key[p[j]], key[p[i]])
        /\ LET d == [e \in E |-> IF e \in R THEN InEdges_edgeDst[p[e]]
                                 ELSE InEdges_edgeDst[e]]
               v == [e \in E |-> IF e \in R THEN InEdges_edgeData[p[e]]
                                 ELSE InEdges_edgeData[e]]
           IN  IF inEdges.edgeDst = "Super"
               THEN edgeDst' = d /\ edgeData' = v /\ UNCHANGED inEdges
               ELSE /\ inEdges' = [inEdges EXCEPT !.edgeDstStore = d, !.edgeDataStore = v]
                    /\ UNCHANGED <<edgeDst, edgeData>>

\* the acquire (&this->nodeData[N], mflag) that opens a sort of the in-edges,
\* and the sort if the acquire succeeds
sortIn(t, a, n, c, m, key) ==
  /\ NoTraversal(t, n)
  /\ pc[t] = "idle"
  /\ LET r == acquire(nodeOwner, t, n, m)
     IN  /\ nodeOwner' = r.owner
         /\ casRes' = [casRes EXCEPT ![t] = r.cas]
         /\ pc' = [pc EXCEPT ![t] = IF r.ok THEN "ret" ELSE "conflict"]
         /\ acquired' = [acquired EXCEPT ![t] =
                           IF r.ok /\ acquires(m) THEN <<n>> ELSE <<>>]
         /\ IF r.ok
            THEN InEdges_sort(n, c, key)
            ELSE UNCHANGED <<edgeDst, edgeData, inEdges>>
  /\ acc' = [acc EXCEPT ![t] = a]
  /\ N' = [N EXCEPT ![t] = n]
  /\ mflag' = [mflag EXCEPT ![t] = m]
  /\ ii' = [ii EXCEPT ![t] = 0]
  /\ UNCHANGED notInEdgeVars

\* LC_CSR_InOutGraph::sortInEdgesByEdgeData (lines 394-397)
sortInEdgesByEdgeData(t, n, c, m) ==
  sortIn(t, "sortInEdgesByEdgeData", n, c, m, InEdges_edgeData)

\* LC_CSR_InOutGraph::sortInEdges (lines 403-406)
sortInEdges(t, n, c, m) ==
  sortIn(t, "sortInEdges", n, c, m, InEdges_edgeDst)

\* the width of InEdgesBase::NodeIdx, the value_type of EdgeDst (uint32_t),
\* scaled down from 32 bits; InEdgesBase::EdgeIdx, the value_type of
\* EdgeIndData (uint64_t), holds every edge index of the model
NodeIdxBits == 1

\* the conversion of a 64-bit edge index to the parameter type of
\* InEdges::getEdgeData, which line 273 makes Super::NodeIdx
toNodeIdx(e) == e % (2 ^ NodeIdxBits)

\* variant: the parameter is a Super::EdgeIdx, as that of getEdgeDst is
InEdges_getEdgeData_EdgeIdx(e) == InEdges_edgeData[e]

\* InEdges::getEdgeData (EdgeIdx e), lines 282-284: (*edgeData)[e] with e
\* converted to NodeIdx at the call
InEdges_getEdgeData(e) == InEdges_edgeData[toNodeIdx(e)]

\* LC_CSR_InOutGraph::getInEdgeDst: inEdges.getEdgeDst (*ni)
getInEdgeDst(t, e) ==
  edgeAccess(t, "getInEdgeDst", e, "none", getEdgeDst(e), "none", getEdgeDst(e))

\* LC_CSR_InOutGraph::getInEdgeData: checkWrite (mflag, false), then
\* inEdges.getEdgeData (*ni)
getInEdgeData(t, e, m) ==
  edgeAccess(t, "getInEdgeData", e, m, getEdgeDst(e), "none", InEdges_getEdgeData(e))

\* a write through the edge_data_reference getInEdgeData returned:
\* g.getInEdgeData (ni) = v goes to the slot inEdges.getEdgeData (*ni) refers to
storeInEdgeData(t, v) ==
  /\ pc[t] = "ret"
  /\ acc[t] = "getInEdgeData"
  /\ InEdges_getEdgeData(ii[t]) # v
  /\ IF inEdges.edgeData = "Super"
     THEN edgeData' = [edgeData EXCEPT ![toNodeIdx(ii[t])] = v] /\ UNCHANGED inEdges
     ELSE /\ inEdges' = [inEdges EXCEPT !.edgeDataStore[toNodeIdx(ii[t])] = v]
          /\ UNCHANGED edgeData
  /\ UNCHANGED <<nodeOwner, edgeIndData, edgeDst, acc, N, mflag, ii, acquired>>
  /\ UNCHANGED <<mgrVars, mapVars, file, loaded, inl, lin, numa, activeThreads, ctxtVars, nodeData,
                 numNodes, numEdges, transpose, fatal>>

\* an LC_CSR_InOutGraph object not yet loaded; the input is any structural
\* graph, and its transpose is at hand
InitInView ==
  /\ InitMgr
  /\ InitAccess
  /\ InitContexts
  /\ edgeIndData = [n \in Nodes |-> 0]
  /\ edgeDst = <<>>
  /\ edgeData = <<>>
  /\ loaded = {}
  /\ nodeData = <<>>
  /\ numNodes = 0
  /\ numEdges = 0
  /\ inl = NoInline
  /\ lin = NoLinear
  /\ numa = NoNuma
  /\ activeThreads = 1
  /\ file \in FileGraphs
  /\ transpose = Transpose(file)
  /\ inEdges = NoInEdges
  /\ fatal = "none"

\* the graph is loaded in one of the two ways; then the sorts and the payload
\* writes through the two views are run one after the other by any context
NextInView ==
  \/ InOut_structureFromGraph_transpose
  \/ \E symmetric \in BOOLEAN : InOut_structureFromGraph_symmetric(symmetric)
  \/ \E t \in Threads, n \in Nodes, c \in Comparators, m \in MethodFlag :
       Ready /\ Alone(t) /\ sortEdges(t, n, c, m)
  \/ \E t \in Threads, n \in Nodes, c \in Comparators, m \in MethodFlag :
       Ready /\ Alone(t) /\ sortEdgesByEdgeData(t, n, c, m)
  \/ \E t \in Threads, n \in Nodes, c \in Comparators, m \in MethodFlag :
       Ready /\ Alone(t) /\ sortInEdges(t, n, c, m)
  \/ \E t \in Threads, n \in Nodes, c \in Comparators, m \in MethodFlag :
       Ready /\ Alone(t) /\ sortInEdgesByEdgeData(t, n, c, m)
  \/ \E t \in Threads, e \in EdgeIdx, m \in MethodFlag :
       Ready /\ Alone(t) /\ getEdgeData(t, e, m)
  \/ \E t \in Threads, e \in EdgeIdx, m \in MethodFlag :
       Ready /\ Alone(t) /\ getInEdgeData(t, e, m)
  \/ \E t \in Threads, v \in EdgeTy : storeEdgeData(t, v)
  \/ \E t \in Threads, v \in EdgeTy : storeInEdgeData(t, v)
  \/ \E t \in Threads : Return(t)
  \/ \E t \in Threads : abort(t)
  \/ \E t \in Threads : commit(t)

SpecInView == InitInView /\ [][NextInView]_vars

(* ------------------- claims about PtrBasedNhoodMgr -------------------- *)

\* no getNhoodItem call is in progress and no reset is running
Quiescent == mode = "run" /\ \A t \in Threads : pc[t] = "idle"

\* C1: mutual exclusion of claims.  Of the tryMappingTo(l) calls racing for an
\* unowned l exactly one returns true: the count of true results since the
\* slot was last cleared is never above one, it is one exactly when the slot
\* names an owner, and a caller that was told false finds one success.
C1_MutualExclusion ==
  /\ \A l \in Lockables :
       /\ claims[l] <= 1
       /\ (claims[l] = 1) <=> (getOwner(l) # NULL)
  /\ \A t \in Threads : casRes[t] = "lost" => claims[larg[t]] = 1
  /\ \A t, u \in Threads :
       (t # u /\ casRes[t] = "won" /\ casRes[u] = "won") => larg[t] # larg[u]

\* two callers raced for the same slot: one was told true, the other false
C1_Witness ==
  \E t, u \in Threads :
    /\ larg[t] = larg[u]
    /\ casRes[t] = "won"
    /\ casRes[u] = "lost"

\* C2: every getNhoodItem(l) call returns the record the owner slot of l
\* names, a live record constructed for l and pushed by the winner of the
\* race; so no two calls return distinct records for the same l.
C2_PtrUnique ==
  /\ \A t \in Threads :
       pc[t] = "ret" =>
         /\ ret[t] # NULL
         /\ ret[t] = getOwner(larg[t])
         /\ live[ret[t]]
         /\ lockable[ret[t]] = larg[t]
         /\ allNItems[ret[t]] > 0
  /\ \A t, u \in Threads :
       (pc[t] = "ret" /\ pc[u] = "ret" /\ larg[t] = larg[u]) => ret[t] = ret[u]

\* the winner and a loser of one race have both returned, with one record
C2_Witness ==
  \E t, u \in Threads :
    /\ pc[t] = "ret" /\ pc[u] = "ret"
    /\ larg[t] = larg[u]
    /\ casRes[t] = "won" /\ casRes[u] = "lost"
    /\ ret[t] = ret[u] /\ ret[t] # NULL

\* a losing candidate: allocated, not published
C4_LoserState ==
  \A t \in Threads :
    pc[t] = "L188" =>
      /\ ni[t] # NULL /\ live[ni[t]]
      /\ \A l \in Lockables : getOwner(l) # ni[t]
      /\ \A u \in Threads : ret[u] # ni[t] /\ (u # t => ni[u] # ni[t])

\* every allocated record is in allNItems or is the candidate of a caller
\* that has not yet reached its push or destroy
C4_NoLeak ==
  \A r \in Records :
    live[r] => (allNItems[r] > 0 \/ \E t \in Threads : ni[t] = r)

\* the step in which the compare-and-swap fails pushes nothing, and the next
\* step of the loser deallocates the candidate, pushes and publishes nothing
C4_LoserStep ==
  \A t \in Threads :
    /\ (pc[t] = "L184" /\ casRes'[t] = "lost") =>
         (allNItems' = allNItems /\ owner' = owner /\ pc'[t] = "L188")
    /\ (pc[t] = "L188" /\ pc'[t] # "L188") =>
         (~live'[ni[t]] /\ allNItems' = allNItems /\ owner' = owner)

\* C4: a candidate whose tryMappingTo failed is destroyed before the call
\* returns, is never pushed, never an owner-slot value, never returned; every
\* allocated record is in allNItems or still a candidate, so at quiescence
\* it is in allNItems or deallocated.
C4_LoserNeverPublished ==
  /\ [](C4_LoserState /\ C4_NoLeak)
  /\ [][C4_LoserStep]_vars

\* a loser has destroyed its candidate and has returned
C4_Witness ==
  \E t \in Threads :
    /\ pc[t] = "ret" /\ casRes[t] = "lost"
    /\ \E r \in Records : ~live[r]

\* C5: no preemption.  The pointer in an owner slot changes only from none
\* to an owner or from an owner to none, never from one owner to another.
C5_NoPreemption ==
  [][\A l \in Lockables :
       owner'[l].ptr # owner[l].ptr =>
         (owner[l].ptr = NULL \/ owner'[l].ptr = NULL)]_vars

\* after a release and a new claim, a competing claim has failed on the
\* owned slot
C5_Witness ==
  /\ resets > 0
  /\ \E t \in Threads : casRes[t] = "lost" /\ getOwner(larg[t]) # NULL

\* position of a statement within getNhoodItem
Rank(p) ==
  CASE p = "idle" -> 0
    [] p = "L180" -> 1
    [] p = "L182" -> 2
    [] p = "L184" -> 3
    [] p = "L188" -> 4
    [] p = "L191" -> 5
    [] p = "L194" -> 6
    [] p = "ret" -> 7

\* the statements of getNhoodItem other than the allocation
OwnStep(t) == L180(t) \/ L184(t) \/ destroy(t) \/ L191(t) \/ L194(t)

\* C6: claim attempts are non-blocking.  Every step of a call moves forward
\* in the code (no statement is executed twice: one lookup, at most one
\* allocation, one compare-and-swap), and the next statement of a caller is
\* enabled whatever the other threads are doing.
C6_NonBlocking ==
  /\ [][\A t \in Threads :
          pc'[t] # pc[t] => (Rank(pc'[t]) > Rank(pc[t]) \/ pc'[t] = "idle")]_vars
  /\ [](\A t \in Threads :
          pc[t] \in {"L180", "L184", "L188", "L191", "L194"} => ENABLED OwnStep(t))

\* a caller that lost the race has returned while the winner is still inside
\* its call
C6_Witness ==
  \E t, u \in Threads :
    /\ pc[t] = "ret" /\ casRes[t] = "lost"
    /\ pc[u] = "L191" /\ casRes[u] = "won"

(* ------------------- claims about MapBasedNhoodMgr -------------------- *)

\* the records constructed for lockable l
RecordsOf(l) == {r \in Records : live[r] /\ lockable[r] = l}

\* C3: double-checked creation.  At most one record is ever created for a
\* lockable, it is the one nhoodMap holds and it was pushed exactly once;
\* every getNhoodItem(l) call returns it.
C3_MapUnique ==
  /\ \A l \in Lockables :
       /\ Cardinality(RecordsOf(l)) <= 1
       /\ nhoodMap[l] # NULL => RecordsOf(l) = {nhoodMap[l]}
       /\ nhoodMap[l] = NULL => RecordsOf(l) = {}
  /\ \A r \in Records : allNItems[r] = (IF live[r] THEN 1 ELSE 0)
  /\ \A t \in Threads :
       pc[t] = "ret" => (ret[t] # NULL /\ ret[t] = nhoodMap[larg[t]])

\* a thread that missed under the read lock found, under the write lock, the
\* entry another thread had inserted meanwhile, and created nothing
C3_Witness ==
  \E t \in Threads :
    /\ pc[t] = "M276"
    /\ ni[t] = NULL
    /\ nhoodMap[larg[t]] # NULL

(* ------------------- claims about the graph accessors ------------------ *)

\* C7: holder re-entry and loser isolation.  While context A holds the record
\* of node n, a claim attempt on n by any other context fails and leaves the
\* owner slots as they are (so does a locking getData(n) by that context,
\* which ends in a conflict); a getData(n, checkRace) by A itself returns
\* without a compare-and-swap and leaves the owner slots as they are.
C7_ReentryIsolation ==
  /\ [](\A n \in Nodes, b \in Threads :
          nodeOwner[n].ptr \notin {NULL, b} =>
            LET r == tryMappingTo(nodeOwner, b, n)
            IN  ~r.ok /\ r.owner = nodeOwner)
  /\ [][\A t \in Threads, n \in Nodes :
          /\ \A m \in MethodFlag :
               (getData(t, n, m) /\ acquires(m) /\ nodeOwner[n].ptr \notin {NULL, t})
                 => (pc'[t] = "conflict" /\ nodeOwner' = nodeOwner)
          /\ (getData(t, n, "checkRace") /\ nodeOwner[n].ptr = t)
               => (pc'[t] = "ret" /\ nodeOwner' = nodeOwner /\ casRes'[t] = "none")
       ]_vars

\* A holds n, B's getData(n) has ended in a conflict, and A's
\* getData(n, checkRace) has returned on the already-held record
C7_Witness ==
  \E a, b \in Threads, n \in Nodes :
    /\ a # b
    /\ nodeOwner[n].ptr = a
    /\ pc[b] = "conflict" /\ acc[b] = "getData" /\ N[b] = n /\ casRes[b] = "lost"
    /\ pc[a] = "ret" /\ acc[a] = "getData" /\ N[a] = n
    /\ mflag[a] = "checkRace" /\ casRes[a] = "none"

\* the policy of the accessor step thread t takes
StepFlag(t) == IF pc[t] = "idle" THEN mflag'[t] ELSE mflag[t]

\* C8: the policy none never locks.  A step of an accessor called with none
\* leaves every owner slot as it is and never ends in a conflict, whoever
\* holds the node and its neighbors; such a call has acquired nothing and is
\* never inside a neighbor loop.
C8_NoneNeverLocks ==
  /\ [][\A t \in Threads :
          (pc'[t] # pc[t] /\ pc[t] \notin {"ret", "conflict"} /\ StepFlag(t) = "none")
            => (nodeOwner' = nodeOwner /\ pc'[t] \in {"ret", "G189"})]_vars
  /\ [](\A t \in Threads :
          (pc[t] # "idle" /\ mflag[t] = "none")
            => (pc[t] \in {"ret", "G189"} /\ acquired[t] = <<>> /\ casRes[t] = "none"))

\* edge_begin(n, none) has returned while another context holds n and every
\* destination of the edges of n, of which there is at least one
C8_Witness ==
  \E t, u \in Threads :
    /\ t # u
    /\ pc[t] = "ret" /\ acc[t] = "edge_begin" /\ mflag[t] = "none"
    /\ raw_neighbor_begin(N[t]) # raw_neighbor_end(N[t])
    /\ nodeOwner[N[t]].ptr = u
    /\ \A e \in raw_neighbor_begin(N[t])..(raw_neighbor_end(N[t]) - 1) :
         nodeOwner[edgeDst[e]].ptr = u

\* C9: getData(n) under a locking policy acquires the record of n and no
\* other.  The call either returns, and then the caller owns n, or ends in a
\* conflict, and then no owner slot has changed; the slot of every node other
\* than n is as before the call; and while the call has returned the caller
\* owns n, having acquired exactly n.
C9_GetDataExact ==
  /\ [][\A t \in Threads, n \in Nodes, m \in MethodFlag :
          (getData(t, n, m) /\ acquires(m)) =>
            /\ pc'[t] \in {"ret", "conflict"}
            /\ pc'[t] = "ret" => nodeOwner'[n].ptr = t
            /\ pc'[t] = "conflict" => nodeOwner' = nodeOwner
            /\ \A x \in Nodes \ {n} : nodeOwner'[x] = nodeOwner[x]]_vars
  /\ [](\A t \in Threads :
          (pc[t] = "ret" /\ acc[t] = "getData" /\ acquires(mflag[t]))
            => (nodeOwner[N[t]].ptr = t /\ acquired[t] = <<N[t]>>))

\* a locking getData(n) has claimed n and returned while another context holds
\* another node
C9_Witness ==
  \E t \in Threads :
    /\ pc[t] = "ret" /\ acc[t] = "getData" /\ acquires(mflag[t])
    /\ casRes[t] = "won"
    /\ \E x \in Nodes \ {N[t]} : nodeOwner[x].ptr \notin {NULL, t}

\* the records edge_begin(n) has acquired when its loop index is i: n, then
\* the destinations of the edges before i in stored order
Neighborhood(n, i) ==
  <<n>> \o [k \in 1..(i - raw_neighbor_begin(n)) |->
              edgeDst[raw_neighbor_begin(n) + k - 1]]

\* C10: neighborhood acquisition order.  An edge_begin(n) under a
\* neighborhood-locking policy has acquired n first and then the destinations
\* of the edges of n in the order they are stored, one per iteration, and
\* holds all of them; it returns only with the loop at the end of the range,
\* holding n and every destination; an iteration on a destination the caller
\* already holds (a repeated one, or n itself) changes no owner slot and
\* cannot fail.
C10_NeighborhoodOrder ==
  /\ [](\A t \in Threads :
          (acc[t] = "edge_begin" /\ shouldLock(mflag[t])
             /\ (pc[t] \in {"G181", "ret"}
                   \/ (pc[t] = "conflict" /\ acquired[t] # <<>>)))
            => /\ ii[t] \in raw_neighbor_begin(N[t])..raw_neighbor_end(N[t])
               /\ acquired[t] = Neighborhood(N[t], ii[t])
               /\ \A k \in 1..Len(acquired[t]) : nodeOwner[acquired[t][k]].ptr = t
               /\ pc[t] = "ret" => ii[t] = raw_neighbor_end(N[t])
               /\ pc[t] # "ret" => ii[t] < raw_neighbor_end(N[t])
               /\ pc[t] = "conflict" => nodeOwner[edgeDst[ii[t]]].ptr # t)
  /\ [][\A t \in Threads :
          (G181(t) /\ nodeOwner[edgeDst[ii[t]]].ptr = t)
            => (nodeOwner' = nodeOwner /\ pc'[t] # "conflict" /\ ii'[t] = ii[t] + 1)]_vars

\* edge_begin(n) has returned under the neighborhood policy for a node whose
\* edge list holds a destination twice, after claiming that destination once
C10_Witness ==
  \E t \in Threads :
    /\ pc[t] = "ret" /\ acc[t] = "edge_begin" /\ shouldLock(mflag[t])
    /\ Len(acquired[t]) >= 3
    /\ \E j, k \in 2..Len(acquired[t]) : j < k /\ acquired[t][j] = acquired[t][k]

\* C11: checkRace locks only the target.  edge_begin(n, checkRace) and
\* edge_end(n, checkRace) end after the one acquire of n: they return owning
\* n or end in a conflict, and the owner slot of every other node, adjacent
\* or not, is as before; a neighbor loop runs, and a call holds more than its
\* own node, only under checkRaceAndNeighbors.
C11_CheckRaceTargetOnly ==
  /\ [][\A t \in Threads, n \in Nodes :
          (edge_begin(t, n, "checkRace") \/ edge_end(t, n, "checkRace")) =>
            /\ pc'[t] \in {"ret", "conflict"}
            /\ pc'[t] = "ret" => nodeOwner'[n].ptr = t
            /\ \A x \in Nodes \ {n} : nodeOwner'[x] = nodeOwner[x]]_vars
  /\ [](\A t \in Threads :
          /\ pc[t] \in {"G181", "G375"} => mflag[t] = "checkRaceAndNeighbors"
          /\ Len(acquired[t]) > 1 => mflag[t] = "checkRaceAndNeighbors"
          /\ (pc[t] = "ret" /\ acc[t] \in {"edge_begin", "edge_end"}
                /\ mflag[t] = "checkRace") => acquired[t] = <<N[t]>>)

\* edge_begin(n, checkRace) has claimed n and returned, and a destination of
\* an edge of n, another node, is held by nobody
C11_Witness ==
  \E t \in Threads :
    /\ pc[t] = "ret" /\ acc[t] = "edge_begin" /\ mflag[t] = "checkRace"
    /\ casRes[t] = "won"
    /\ \E e \in raw_neighbor_begin(N[t])..(raw_neighbor_end(N[t]) - 1) :
         edgeDst[e] # N[t] /\ nodeOwner[edgeDst[e]].ptr = NULL

\* C12: the edge-level accessors never touch ownership.  getEdgeDst(e), and
\* getEdgeData(e, m) under its default policy none as under any other,
\* return the destination and the payload stored at e, change no owner slot
\* and never end in a conflict, whoever holds the endpoints of e.
C12_EdgeAccessorsNoOwnership ==
  [][\A t \in Threads, e \in EdgeIdx :
       /\ LC_getEdgeDst(t, e) =>
            (nodeOwner' = nodeOwner /\ pc'[t] = "ret" /\ ret'[t] = edgeDst[e])
       /\ \A m \in MethodFlag :
            getEdgeData(t, e, m) =>
              (nodeOwner' = nodeOwner /\ pc'[t] = "ret" /\ ret'[t] = edgeData[e])]_vars

\* getEdgeData(e) has returned under its default policy while another context
\* holds both the source and the destination of e
C12_Witness ==
  \E t, u \in Threads :
    /\ t # u
    /\ pc[t] = "ret" /\ acc[t] = "getEdgeData" /\ mflag[t] = "none"
    /\ nodeOwner[edgeDst[ii[t]]].ptr = u
    /\ \E n \in Nodes :
         /\ raw_neighbor_begin(n) <= ii[t] /\ ii[t] < raw_neighbor_end(n)
         /\ nodeOwner[n].ptr = u

(* --------------------- claims about reset and teardown ----------------- *)

\* C13: fresh record after reset.  Once a reset has run, every getNhoodItem(l)
\* call returns a record that is allocated (not one the reset handed back to
\* niAlloc) and was constructed for l.
C13_FreshAfterReset ==
  \A t \in Threads :
    (resets > 0 /\ pc[t] = "ret") =>
      /\ ret[t] # NULL
      /\ live[ret[t]]
      /\ lockable[ret[t]] = larg[t]

\* a walk of resetAllNItems ends
WalkEnds == ResetDone \/ dtorPtrBasedNhoodMgr \/ Destructed

\* when a walk ends every owner slot is none and no record is left allocated
C14_AllHandedBack ==
  WalkEnds =>
    /\ \A l \in Lockables : owner'[l] = Unowned
    /\ \A r \in Records : ~live'[r]

\* the step that deallocates a record does not leave it in an owner slot
C14_NotWhileOwner ==
  \A r \in Records :
    (live[r] /\ ~live'[r]) => \A l \in Lockables : owner'[l].ptr # r

\* C14: reset postcondition.  A reset or a teardown that starts with no call
\* in progress ends with every owner slot none and every record handed back to
\* niAlloc; no record is handed back a second time (destroy never runs on a
\* record that is already deallocated), and none while an owner slot names it.
C14_ResetPostcondition ==
  /\ [][C14_AllHandedBack /\ C14_NotWhileOwner]_vars
  /\ [](~danglingUse)

\* a record published since the last reset: allocated, and the value of an
\* owner slot (PtrBasedNhoodMgr) or of a nhoodMap entry (MapBasedNhoodMgr)
Published(r) ==
  /\ live[r]
  /\ \E l \in Lockables : getOwner(l) = r \/ nhoodMap[l] = r

\* C15: completeness of getAllRange / getContainer.  With no call in progress
\* allNItems holds every record published since the last reset once, and
\* nothing else: no losing candidate, no record from before the reset, no
\* entry twice.
C15_AllRecordsExact ==
  Quiescent => \A r \in Records : allNItems[r] = (IF Published(r) THEN 1 ELSE 0)

\* C16: release clears ownership.  clearMapping on a record that holds the
\* binding to its lockable, the lock bit being clear, passes its assert and
\* leaves the slot none with the lock bit clear, so that tryMappingTo on that
\* lockable then succeeds for any record.
C16_ClearMappingReleases ==
  [][\A r \in Records :
       (Reset(r) /\ live[r] /\ owner[lockable[r]] = [ptr |-> r, lk |-> FALSE]) =>
         /\ assertOk' = assertOk
         /\ owner'[lockable[r]] = Unowned
         /\ \A x \in Records : tryMappingTo(owner', x, lockable[r]).ok]_vars

\* after a reset released the binding, a new claim on the same lockable has
\* succeeded and its record has been returned
C16_Witness ==
  /\ resets > 0
  /\ assertOk
  /\ \E t \in Threads :
       /\ pc[t] = "ret" /\ casRes[t] = "won"
       /\ getOwner(larg[t]) = ret[t]
       /\ lockable[ret[t]] = larg[t]

(* ------------------------- claims about loading ------------------------ *)

\* the four layouts
Layouts == {"LC_CSR", "LC_CSRInline", "LC_Linear", "LC_Numa"}

\* C17: load preserves adjacency.  For every loaded layout and every node n
\* the edges between edge_begin(n) and edge_end(n) are as many as the
\* neighbors of n in the input, and getEdgeDst over them yields the input's
\* neighbor sequence in order; every destination is a node of the graph.
C17_LoadPreservesAdjacency ==
  \A L \in loaded, n \in Nodes :
    /\ Len(OutEdges(L, n)) = neighbor_end(n) - neighbor_begin(n)
    /\ \A i \in DOMAIN OutEdges(L, n) :
         /\ OutEdges(L, n)[i].dst \in Nodes
         /\ OutEdges(L, n)[i].dst = file.dst[neighbor_begin(n) + i - 1]

\* the four layouts are loaded, the NUMA one over two threads, from an input
\* in which a node has two neighbors in descending order, and the packed
\* layouts hand them out in that order
C17_Witness ==
  /\ loaded = Layouts
  /\ activeThreads = 2
  /\ \E n \in Nodes :
       /\ neighbor_end(n) - neighbor_begin(n) = 2
       /\ file.dst[neighbor_begin(n)] > file.dst[neighbor_begin(n) + 1]
       /\ OutEdges("LC_Numa", n)[1].dst > OutEdges("LC_Numa", n)[2].dst
       /\ OutEdges("LC_Linear", n)[1].dst > OutEdges("LC_Linear", n)[2].dst

\* C18: load preserves edge payload.  For every loaded layout, every node n
\* and every i, getEdgeData of the i-th out-edge of n is the payload of the
\* i-th neighbor edge of n in the input; the payload of every node is the
\* default value.
C18_LoadPreservesPayload ==
  \A L \in loaded, n \in Nodes :
    /\ DOMAIN OutEdges(L, n) = 1..(neighbor_end(n) - neighbor_begin(n))
    /\ \A i \in DOMAIN OutEdges(L, n) :
         OutEdges(L, n)[i].data = file.data[neighbor_begin(n) + i - 1]
    /\ NodePayload(L, n) = DefaultNodeTy

\* the four layouts are loaded from an input in which node 0 has two edges
\* to different nodes, the first with the larger payload, and hand the
\* payloads out in that order
C18_Witness ==
  /\ loaded = Layouts
  /\ neighbor_begin(0) = 0 /\ neighbor_end(0) = 2
  /\ file.dst[0] # file.dst[1]
  /\ file.data[0] > file.data[1]
  /\ \A L \in Layouts :
       OutEdges(L, 0)[1].data = file.data[0] /\ OutEdges(L, 0)[2].data = file.data[1]

\* size () and sizeEdges () of layout L
size(L) ==
  CASE L = "LC_CSR" -> numNodes
    [] L = "LC_CSRInline" -> inl.numNodes
    [] L = "LC_Linear" -> lin.numNodes
    [] L = "LC_Numa" -> numa.numNodes

sizeEdges(L) ==
  CASE L = "LC_CSR" -> numEdges
    [] L = "LC_CSRInline" -> inl.numEdges
    [] L = "LC_Linear" -> lin.numEdges
    [] L = "LC_Numa" -> numa.numEdges

\* how many out-edges of n lead to node d in layout L (d = -1: to no node)
DstCount(L, n, d) ==
  Cardinality({i \in DOMAIN OutEdges(L, n) : OutEdges(L, n)[i].dst = d})

\* C19: layout equivalence.  Any two layouts loaded from the same input, the
\* NUMA one over any number of threads, agree on size (), on sizeEdges () and,
\* for every node, on the multiset of its edge destinations taken as
\* structural node indices.
C19_LayoutEquivalence ==
  \A L1, L2 \in loaded :
    /\ size(L1) = size(L2)
    /\ sizeEdges(L1) = sizeEdges(L2)
    /\ \A n \in Nodes :
         /\ Len(OutEdges(L1, n)) = Len(OutEdges(L2, n))
         /\ \A d \in Nodes \cup {-1} : DstCount(L1, n, d) = DstCount(L2, n, d)

\* the four layouts are loaded, the NUMA one with its nodes divided between
\* the buffers of two threads, and a node has two edges to the same node
C19_Witness ==
  /\ loaded = Layouts
  /\ activeThreads = 2
  /\ \A tid \in 0..1 : numa.headers[tid].begin # numa.headers[tid].end
  /\ \E n, d \in Nodes : \A L \in Layouts : DstCount(L, n, d) = 2

(* ------------------------- claims about sorting ------------------------ *)

\* how often the pair p occurs among the edges sq
PairCount(sq, p) == Cardinality({i \in DOMAIN sq : sq[i] = p})

\* two edge sequences hold the same (destination, payload) pairs, each as
\* often
SameBag(a, b) ==
  /\ Len(a) = Len(b)
  /\ \A i \in DOMAIN a : PairCount(a, a[i]) = PairCount(b, a[i])

\* no edge of sq comes before one that comparator c, looking at field f,
\* puts first
OrderedBy(sq, c, f) ==
  \A i, j \in DOMAIN sq : i < j => ~before(c, sq[j][f], sq[i][f])

\* what a sort of the edges of n by field f that has returned leaves behind
Sorted(n, c, f) ==
  /\ SameBag(OutEdges_CSR(n)', OutEdges_CSR(n))
  /\ OrderedBy(OutEdges_CSR(n)', c, f)
  /\ \A x \in Nodes \ {n} : OutEdges_CSR(x)' = OutEdges_CSR(x)

\* C20: sorting keeps destination and payload paired.  A sortEdgesByEdgeData
\* or sortEdges of node n that returns leaves the multiset of (destination,
\* payload) pairs of n as it was, in an order the comparator accepts, and the
\* other nodes untouched; so every node always has the pairs it was loaded
\* with.
C20_SortKeepsPairs ==
  /\ [][\A t \in Threads, n \in Nodes, c \in Comparators, m \in MethodFlag :
          /\ (sortEdgesByEdgeData(t, n, c, m) /\ pc'[t] = "ret") => Sorted(n, c, "data")
          /\ (sortEdges(t, n, c, m) /\ pc'[t] = "ret") => Sorted(n, c, "dst")]_vars
  /\ [](\A n \in Nodes : SameBag(OutEdges_CSR(n), FileEdges(n)))

\* a sort by ascending payload has returned on a node loaded with two edges
\* to different nodes, the larger payload first: the edges are read back in
\* the other order, each destination with its payload
C20_Witness ==
  \E t \in Threads :
    /\ pc[t] = "ret" /\ acc[t] = "sortEdgesByEdgeData"
    /\ Len(FileEdges(N[t])) = 2
    /\ FileEdges(N[t])[1].dst # FileEdges(N[t])[2].dst
    /\ FileEdges(N[t])[1].data > FileEdges(N[t])[2].data
    /\ OutEdges_CSR(N[t]) = <<FileEdges(N[t])[2], FileEdges(N[t])[1]>>

(* ---------------------- claims about the topology ---------------------- *)

\* how many of the edges sq lead to node d
DstsTo(sq, d) == Cardinality({i \in DOMAIN sq : sq[i].dst = d})

\* C21: the topology is immutable after load.  Whatever accessors, sorts,
\* claims, releases and payload writes have run, size () and sizeEdges () are
\* the node and edge counts of the input, and every node has the out-degree
\* and the multiset of edge destinations it was loaded with.
C21_TopologyImmutable ==
  /\ numNodes = FileGraph_size
  /\ numEdges = FileGraph_sizeEdges
  /\ \A n \in Nodes :
       /\ Len(OutEdges_CSR(n)) = Len(FileEdges(n))
       /\ \A d \in Nodes : DstsTo(OutEdges_CSR(n), d) = DstsTo(FileEdges(n), d)

\* a node loaded with two edges in ascending order of destination has them
\* in descending order after a sort, both payloads having been overwritten,
\* and the payload of a node has been written
C21_Witness ==
  /\ \E n \in Nodes :
       /\ Len(FileEdges(n)) = 2
       /\ FileEdges(n)[1].dst < FileEdges(n)[2].dst
       /\ OutEdges_CSR(n)[1].dst > OutEdges_CSR(n)[2].dst
       /\ \A i \in 1..2 : \A j \in 1..2 : OutEdges_CSR(n)[i].data # FileEdges(n)[j].data
  /\ \E n \in Nodes : nodeData[n] # DefaultNodeTy

(* ---------------------- claims about LC_CSR_InOutGraph ----------------- *)

\* neither the out-edge arrays nor the in-edge stores have been laid out
NothingLaidOut ==
  /\ loaded = {}
  /\ numNodes = 0 /\ numEdges = 0 /\ nodeData = <<>>
  /\ edgeDst = <<>> /\ edgeData = <<>>
  /\ inEdges = NoInEdges

\* C22: bidirectional construction rejects mismatched inputs.
\* structureFromGraph (graph, transpose) ends in a fatal error exactly when
\* the node counts or the edge counts of graph and transpose differ; it then
\* has laid out neither the out-edge arrays nor the in-edge stores.  When the
\* counts agree no error is raised and both are laid out.
C22_MismatchRejected ==
  /\ [][InOut_structureFromGraph_transpose =>
          LET differ == \/ sizeOf(file) # sizeOf(transpose)
                        \/ sizeEdgesOf(file) # sizeEdgesOf(transpose)
          IN  /\ differ => (fatal' \in {"nodes", "edges"} /\ NothingLaidOut')
              /\ ~differ => /\ fatal' = "none"
                            /\ "LC_CSR" \in loaded'
                            /\ inEdges'.edgeDstStore = transpose.dst]_vars
  /\ [](fatal \in {"nodes", "edges"} => NothingLaidOut)

\* the transpose has as many nodes as the graph and fewer edges, and the
\* program has ended in the fatal error about the edges
C22_Witness ==
  /\ fatal = "edges"
  /\ sizeOf(transpose) = sizeOf(file)
  /\ sizeEdgesOf(transpose) < sizeEdgesOf(file)

\* the in-edges of node n read with in_edge_begin, in_edge_end, getInEdgeDst
\* and getInEdgeData: one [dst, data] per edge, in order
InEdges_CSR(n) ==
  [i \in 1..(raw_end(n) - raw_begin(n)) |->
     [dst |-> getEdgeDst(raw_begin(n) + i - 1),
      data |-> InEdges_edgeData[raw_begin(n) + i - 1]]]

C23_WitnessCopy ==
  /\ Ready
  /\ "transpose" \in loaded
  /\ \E n \in Nodes :
       /\ Len(FileEdges(n)) = 2
       /\ OutEdges_CSR(n)[1].dst > OutEdges_CSR(n)[2].dst
       /\ FileEdges(n)[1].dst < FileEdges(n)[2].dst
  /\ edgeData # file.data
  /\ inEdges.edgeDstStore = transpose.dst
  /\ inEdges.edgeDataStore = transpose.data

(* ---------------------- claims about the NUMA layout ------------------- *)

\* the nodes of the chunks of threads tid .. num - 1 of d, one chunk after
\* the other
RECURSIVE ChunkNodes(_, _, _)
ChunkNodes(d, tid, num) ==
  IF tid >= num THEN <<>>
  ELSE Range(d[tid].begin, d[tid].end) \o ChunkNodes(d, tid + 1, num)

\* the number of edges of the nodes b .. e - 1 of the input
EdgesOfRange(b, e) == neighbor_begin(e) - neighbor_begin(b)

\* C24: the NUMA partition is a contiguous cover.  For every number of
\* threads distribute gives each thread a range of the node sequence; the
\* ranges, taken in thread order, make up the node sequence (disjoint,
\* covering every node once), and numNodes and numEdges of every thread are
\* the node and edge counts of its range, also for a thread whose threshold
\* is never reached.
C24_ContiguousCover ==
  \A W \in 1..MaxActiveThreads :
    LET d == distribute(W)
    IN  /\ DOMAIN d = 0..(W - 1)
        /\ ChunkNodes(d, 0, W) = Range(0, FileGraph_size)
        /\ \A tid \in 0..(W - 1) :
             /\ d[tid].begin <= d[tid].end
             /\ d[tid].end <= FileGraph_size
             /\ d[tid].numNodes = d[tid].end - d[tid].begin
             /\ d[tid].numEdges = EdgesOfRange(d[tid].begin, d[tid].end)

\* the NUMA layout is loaded over two threads from an input for which the
\* threshold of thread 0 is never reached: thread 0 has no node, thread 1 all
C24_Witness ==
  /\ "LC_Numa" \in loaded
  /\ activeThreads = 2
  /\ distribute(2)[0] = NoDistributeInfo
  /\ distribute(2)[1].numNodes = FileGraph_size
  /\ distribute(2)[1].numEdges = FileGraph_sizeEdges
  /\ FileGraph_sizeEdges > 0

\* the nodes AllocateNodes laid out in the buffer of thread tid, in layout
\* order: the addresses of the nodes of its chunk
ArenaNodes(tid) ==
  IF tid < activeThreads
  THEN LET d == distribute(activeThreads)[tid]
       IN  [k \in 1..(d.end - d.begin) |-> numa.nodes[d.begin + k - 1]]
  ELSE <<>>

\* C25: NUMA local iteration is exactly the partition of the thread.  On every
\* thread the iteration from local_begin () to local_end () yields the nodes
\* laid out in the buffer of that thread, each once, in layout order, and
\* nothing else; for a thread whose chunk is empty it yields nothing.
C25_LocalIsPartition ==
  "LC_Numa" \in loaded =>
    \A tid \in 0..(MaxActiveThreads - 1) :
      /\ LocalNodes(tid).ok
      /\ LocalNodes(tid).seq = ArenaNodes(tid)

\* the same for the threads whose chunk holds a node, and the threads
\* AllocateNodes did not run on
C25_NonEmptyChunks ==
  "LC_Numa" \in loaded =>
    \A tid \in 0..(MaxActiveThreads - 1) :
      (ArenaNodes(tid) # <<>> \/ tid >= activeThreads) =>
        /\ LocalNodes(tid).ok
        /\ LocalNodes(tid).seq = ArenaNodes(tid)

\* the NUMA layout is loaded over two threads and both chunks hold a node
C25_WitnessNonEmpty ==
  /\ "LC_Numa" \in loaded
  /\ activeThreads = 2
  /\ \A tid \in 0..1 : ArenaNodes(tid) # <<>> /\ LocalNodes(tid).seq = ArenaNodes(tid)

(* ------------------- claims about the edge payloads' lifetime ---------- *)

\* the slots of edgeData that LC_CSRInline_Graph::structureFromGraph
\* constructed (every slot of the array when the layout went well)
InlineConstructed == {e \in DOMAIN inl.data : inl.data[e] # Garbage}

\* the addresses at which a packed layout constructed an object of kind k
PackedConstructed(g, k, sz) == {a \in DOMAIN g.mem : intact(g.mem, a, sz, k)}

\* the destructor of a packed layout paired every construct () with one
\* destructor call and made no other
PackedPaired(g) ==
  g.life.dead =>
    /\ ~g.life.outside
    /\ ~g.life.pastEnd
    /\ \A a \in DOMAIN g.mem :
         g.life.destroyed[a] =
           IF \/ a \in PackedConstructed(g, "edge", SizeofEdgeInfo)
              \/ a \in PackedConstructed(g, "node", SizeofNodeInfo)
           THEN 1 ELSE 0

\* C26: once the destructor of a layout with inline edge payloads has run,
\* every edge slot structureFromGraph constructed has been destroyed exactly
\* once, no other slot has been destroyed and no node record at or past the
\* end of the node array has been read
C26_LifetimePairs ==
  /\ inl.life.dead =>
       /\ ~inl.life.outside
       /\ ~inl.life.pastEnd
       /\ \A e \in DOMAIN inl.life.destroyed :
            inl.life.destroyed[e] = IF e \in InlineConstructed THEN 1 ELSE 0
  /\ PackedPaired(lin)
  /\ PackedPaired(numa)

\* the part of C26 on LC_Linear_Graph and LC_Numa_Graph
C26_PackedPairs == PackedPaired(lin) /\ PackedPaired(numa)

\* the two packed layouts have been destructed with edges in them
C26_WitnessPacked ==
  /\ lin.life.dead /\ numa.life.dead
  /\ PackedConstructed(lin, "edge", SizeofEdgeInfo) # {}
  /\ PackedConstructed(numa, "edge", SizeofEdgeInfo) # {}

(* ------------------- claims about the ContextComparator ---------------- *)

\* f is a strict weak ordering of the payloads: irreflexive, transitive, and
\* being unordered either way is transitive
IsStrictWeakOrdering(f) ==
  LET unordered(x, y) == ~call(f, x, y) /\ ~call(f, y, x)
  IN  /\ \A x \in T : ~call(f, x, x)
      /\ \A x, y, z \in T : call(f, x, y) /\ call(f, y, z) => call(f, x, z)
      /\ \A x, y, z \in T : unordered(x, y) /\ unordered(y, z) => unordered(x, z)

\* C27: on non-null contexts the comparator returns cmp of the two payloads,
\* in this order; when cmp is a strict weak ordering the lifted relation is
\* irreflexive, asymmetric and transitive, and contexts with equal payloads
\* are not ordered before one another
C27_ComparatorLifting ==
  /\ \A a, b \in Contexts :
       ContextComparator(a, b) = call(cmp, active[a], active[b])
  /\ (compared.called /\ compared.left # NULL /\ compared.right # NULL) =>
       compared.result = call(cmp, active[compared.left], active[compared.right])
  /\ IsStrictWeakOrdering(cmp) =>
       /\ \A a \in Contexts : ~ContextComparator(a, a)
       /\ \A a, b \in Contexts : ContextComparator(a, b) => ~ContextComparator(b, a)
       /\ \A a, b, c \in Contexts :
            ContextComparator(a, b) /\ ContextComparator(b, c) => ContextComparator(a, c)
       /\ \A a, b \in Contexts :
            active[a] = active[b] => ~ContextComparator(a, b) /\ ~ContextComparator(b, a)
       /\ (compared.called /\ compared.left # NULL /\ compared.right # NULL
             /\ active[compared.left] = active[compared.right]) => ~compared.result

\* a strict weak ordering that is not the order of the numbers, three
\* contexts in a chain, two distinct contexts with one payload, and a call
\* that returned true
C27_Witness ==
  /\ IsStrictWeakOrdering(cmp)
  /\ \E x, y \in T : x < y /\ call(cmp, y, x)
  /\ \E a, b, c \in Contexts : ContextComparator(a, b) /\ ContextComparator(b, c)
  /\ \E a, b \in Contexts : a # b /\ active[a] = active[b]
  /\ compared.called /\ compared.result

(* ------------------- claims about the map lookup's progress ------------ *)

C28_Returns == \A t \in Threads : (pc[t] = "M260") ~> (pc[t] = "ret")

(* ------------------- claims about the asserts of getNhoodItem ---------- *)

\* C29: no assert of PtrBasedNhoodMgr::getNhoodItem fails: a caller that
\* has left the create-and-CAS branch, or skipped it, finds the owner slot
\* of l non-null at line 191 and at line 194, and the record it returns is
\* non-null, whether its own compare-and-swap won or lost
C29_AssertsHold ==
  /\ [](\A t \in Threads : pc[t] \in {"L191", "L194"} => getOwner(larg[t]) # NULL)
  /\ [](\A t \in Threads : pc[t] = "ret" => ret[t] # NULL)
  /\ [][\A t \in Threads : (L191(t) \/ L194(t)) => assertOk' = assertOk]_vars

\* two callers raced for one lockable: both have returned, one having won
\* the compare-and-swap and one having lost it
C29_Witness ==
  \E t, u \in Threads :
    /\ pc[t] = "ret" /\ casRes[t] = "won"
    /\ pc[u] = "ret" /\ casRes[u] = "lost"
    /\ larg[t] = larg[u]

(* ------------------- claims about the locking of nhoodMap -------------- *)

\* find (lines 261, 280) runs under map_mutex, the re-check and the insert
\* (lines 270-273) under the write lock with nobody else inside, and the
\* lookup a caller leaves the locked part with has found a record
C30_FindAndInsertProtected ==
  /\ [][\A t \in Threads : (M261(t) \/ M280(t)) => Holds(t)]_vars
  /\ [][\A t \in Threads : M270(t) => map_mutex = [readers |-> {}, writer |-> t]]_vars
  /\ [](\A t \in Threads : pc[t] \in {"M283", "M284"} => it[t] # NULL)

\* a caller is about to insert while another waits to read, and a caller
\* whose final lookup found the record another caller inserted
C30_WitnessProtected ==
  \E t, u \in Threads :
    /\ t # u
    /\ pc[t] = "M283" /\ it[t] # NULL
    /\ pc[u] = "M279"

\* C30: every read of nhoodMap, the dereference of the found entry (lines
\* 284-287) included, is made by a thread that holds map_mutex; every insert
\* is made under the write lock with nobody else inside; the final lookup
\* finds a non-null record
C30_LockProtected ==
  /\ C30_FindAndInsertProtected
  /\ [][\A t \in Threads : M284(t) => Holds(t)]_vars

(* ------------------- claims about the NUMA construction ---------------- *)

\* the destinations of the edges thread tid lays out
DestsOf(tid) ==
  LET d == distribute(activeThreads)[tid]
  IN  {file.dst[e] : e \in {x \in EdgeIdx :
                              \E n \in Nodes : /\ d.begin <= n /\ n < d.end
                                               /\ neighbor_begin(n) <= x
                                               /\ x < neighbor_end(n)}}

\* C31: when a thread runs AllocateEdges, nodes[d] has been written for every
\* destination d of its edges, whichever thread's partition d lies in; once
\* structureFromGraph is done every edge leads to the node record of its
\* destination in the input
C31_NodesBeforeEdges ==
  /\ [][\A tid \in ActiveTids :
          Numa_AllocateEdges(tid) =>
            \A d \in DestsOf(tid) : /\ numa.nodes[d] # NULL
                                    /\ intact(numa.mem, numa.nodes[d], SizeofNodeInfo, "node")]_vars
  /\ []("LC_Numa" \in loaded =>
          /\ numa.ok
          /\ \A n \in Nodes : OutEdges_Packed(numa, n) = FileEdges(n))

\* a graph built by two threads in which an edge of each thread's partition
\* leads into the partition of the other
C31_Witness ==
  /\ "LC_Numa" \in loaded
  /\ activeThreads = 2
  /\ \E d \in DestsOf(0) : d >= distribute(2)[1].begin /\ d < distribute(2)[1].end
  /\ \E d \in DestsOf(1) : d >= distribute(2)[0].begin /\ d < distribute(2)[0].end

(* ------------------- claims about the local iteration's end ------------ *)

\* the address behind the buffer of the thread whose Header is p: the
\* Header is the start of the buffer, h->size its length (lines 866-868)
ArenaEnd(p) ==
  numa.headers[p - 1].begin - SizeofHeader + numaSize(distribute(activeThreads)[p - 1])

\* what becomes of for (i = local_begin (); i != local_end (); ++i) from
\* iterator i on, e being local_end (): "end" when i comes to equal e,
\* "outside" when it points at or behind the end of the arena it walks;
\* fuel bounds the increments looked at
RECURSIVE LocalReach(_, _, _)
LocalReach(i, e, fuel) ==
  IF i = e THEN "end"
  ELSE IF i.p # NULL /\ i.v >= ArenaEnd(i.p) THEN "outside"
  ELSE IF fuel = 0 THEN "runs on"
  ELSE LocalReach(advance(i), e, fuel - 1)

\* more increments than there are addresses and threads
Fuel == Cardinality(DOMAIN numa.mem) + headers_size + 1

\* C32: on every thread, incrementing local_begin () comes to local_end ()
\* and never to an address at or behind the end of the arena
C32_LocalTerminates ==
  "LC_Numa" \in loaded =>
    \A tid \in 0..(MaxActiveThreads - 1) :
      LocalReach(local_begin(tid), local_end(tid), Fuel) = "end"

\* the same for the threads that were given a node, or that AllocateNodes did
\* not run on
C32_NonEmptyTerminates ==
  "LC_Numa" \in loaded =>
    \A tid \in 0..(MaxActiveThreads - 1) :
      (ArenaNodes(tid) # <<>> \/ tid >= activeThreads) =>
        LocalReach(local_begin(tid), local_end(tid), Fuel) = "end"

\* two threads with a node each: the walk of the first ends at the begin of
\* the second's arena, the walk of the second, the last worker, behind the
\* last Header
C32_WitnessNonEmpty ==
  /\ "LC_Numa" \in loaded
  /\ activeThreads = 2
  /\ \A tid \in 0..1 :
       /\ ArenaNodes(tid) # <<>>
       /\ LocalReach(local_begin(tid), local_end(tid), Fuel) = "end"

(* ------------------- claims about the packed layouts' extent ----------- *)

\* the degree sequences the layout arithmetic is checked for
DegreeSeqs == UNION {[1..k -> 0..(NumEdges + 1)] : k \in 1..(NumNodes + 1)}

RECURSIVE SumSeq(_)
SumSeq(q) == IF q = <<>> THEN 0 ELSE Head(q) + SumSeq(Tail(q))

\* nodes with the degrees degs are laid out from address a on as the node
\* loops do (construct at the address, go to next ()), prevEnd being the end
\* of the edges of the node before: no node record starts before prevEnd,
\* and the edges of the last node end at or before address hi
RECURSIVE LaidOutInside(_, _, _, _)
LaidOutInside(degs, a, prevEnd, hi) ==
  IF degs = <<>>
  THEN prevEnd <= hi
  ELSE /\ prevEnd <= a
       /\ LaidOutInside(Tail(degs), NodeInfo_next(a, NodeInfo_edgeEnd(a, Head(degs))),
                        NodeInfo_edgeEnd(a, Head(degs)), hi)

\* the out-degree of node n in the input
degree(n) == neighbor_end(n) - neighbor_begin(n)

\* the nodes from .. to - 1 of the packed layout g lie in the buffer lo .. hi - 1
\* one after the other: each record and each edge slot is there as it was
\* written, no record starts before the edges of the node before it end,
\* and the edges of the last one end inside the buffer
ChunkInside(g, from, to, lo, hi) ==
  \A n \in from..(to - 1) :
    /\ lo <= g.nodes[n]
    /\ intact(g.mem, g.nodes[n], SizeofNodeInfo, "node")
    /\ \A i \in 1..degree(n) :
         intact(g.mem, NodeInfo_edgeBegin(g.nodes[n]) + (i - 1) * SizeofEdgeInfo,
                SizeofEdgeInfo, "edge")
    /\ NodeInfo_edgeEnd(g.nodes[n], degree(n)) <= hi
    /\ n > from => NodeInfo_edgeEnd(g.nodes[n - 1], degree(n - 1)) <= g.nodes[n]

\* C33: the packed layouts stay inside what was allocated, without overlap:
\* for every degree sequence the arithmetic of next () keeps the records in
\* sizeof (NodeInfo) * numNodes * 2 + sizeof (EdgeInfo) * numEdges units
\* (Linear) and behind a Header in sizeof (Header) * 2 more (NUMA arena), and
\* the loaded layouts are so
C33_PackedInside ==
  /\ \A degs \in DegreeSeqs :
       LET alloc == SizeofNodeInfo * Len(degs) * 2 + SizeofEdgeInfo * SumSeq(degs)
       IN  /\ LaidOutInside(degs, 0, 0, alloc)
           /\ LaidOutInside(degs, SizeofHeader, SizeofHeader, SizeofHeader * 2 + alloc)
  /\ "LC_Linear" \in loaded =>
       /\ lin.ok
       /\ ChunkInside(lin, 0, lin.numNodes, 0,
                      SizeofNodeInfo * lin.numNodes * 2 + SizeofEdgeInfo * lin.numEdges)
  /\ "LC_Numa" \in loaded =>
       /\ numa.ok
       /\ \A tid \in 0..(activeThreads - 1) :
            LET d == distribute(activeThreads)[tid]
            IN  ChunkInside(numa, d.begin, d.end, numa.headers[tid].begin,
                            ArenaEnd(tid + 1))

\* both packed layouts are loaded from a graph whose first node has one
\* edge, so that the second record does not follow the edge at once
C33_Witness ==
  /\ {"LC_Linear", "LC_Numa"} \subseteq loaded
  /\ degree(0) = 1
  /\ lin.nodes[1] > NodeInfo_edgeEnd(lin.nodes[0], 1)
  /\ \E n \in Nodes : n > 0 /\ numa.nodes[n] > NodeInfo_edgeEnd(numa.nodes[n - 1], degree(n - 1))

(* ------- in-edges of a graph with more edges than NodeIdx counts ------- *)

\* one edge more than InEdgesBase::NodeIdx has values
WideEdges == 2 ^ NodeIdxBits + 1

\* an LC_CSR_InOutGraph object not yet loaded; the input is any structural
\* graph of WideEdges edges with payloads, and its transpose is at hand
InitInWide ==
  /\ InitMgr
  /\ InitAccess
  /\ InitContexts
  /\ edgeIndData = [n \in Nodes |-> 0]
  /\ edgeDst = <<>>
  /\ edgeData = <<>>
  /\ loaded = {}
  /\ nodeData = <<>>
  /\ numNodes = 0
  /\ numEdges = 0
  /\ inl = NoInline
  /\ lin = NoLinear
  /\ numa = NoNuma
  /\ activeThreads = 1
  /\ file \in FileGraphsOf(NumNodes, WideEdges)
  /\ transpose = Transpose(file)
  /\ inEdges = NoInEdges
  /\ fatal = "none"

\* the graph is loaded in one of the two ways; then the in-edges are read,
\* destination and payload, through any in-edge iterator of the graph
NextInWide ==
  \/ InOut_structureFromGraph_transpose
  \/ \E symmetric \in BOOLEAN : InOut_structureFromGraph_symmetric(symmetric)
  \/ \E t \in Threads, e \in 0..(numEdges - 1), m \in MethodFlag :
       Ready /\ Alone(t) /\ getInEdgeData(t, e, m)
  \/ \E t \in Threads, e \in 0..(numEdges - 1) :
       Ready /\ Alone(t) /\ getInEdgeDst(t, e)
  \/ \E t \in Threads : Return(t)

SpecInWide == InitInWide /\ [][NextInWide]_vars

(* ------------------- claims about the in-edge accessors ---------------- *)

\* thread t has called accessor a of the in-edges with an edge iterator and
\* holds what it returned
Returned(t, a) == pc[t] = "ret" /\ acc[t] = a

\* C34: in-edge payload and destination are read from the same slot.  For
\* every in-edge iterator e of the graph getInEdgeDst (e) returns the
\* destination stored at slot e and getInEdgeData (e) the payload stored at
\* slot e, also when e is not a value of the node-index type.
C34_SameSlot ==
  \A t \in Threads :
    /\ Returned(t, "getInEdgeDst") => ret[t] = InEdges_edgeDst[ii[t]]
    /\ Returned(t, "getInEdgeData") => ret[t] = InEdges_edgeData[ii[t]]

\* the same for the edge iterators that are values of the node-index type
C34_SameSlotNarrow ==
  \A t \in Threads :
    /\ Returned(t, "getInEdgeDst") => ret[t] = InEdges_edgeDst[ii[t]]
    /\ (Returned(t, "getInEdgeData") /\ ii[t] < 2 ^ NodeIdxBits) =>
         ret[t] = InEdges_edgeData[ii[t]]

\* the payload of the last edge index of the node-index type has been read,
\* in a graph whose in-edges carry different payloads
C34_WitnessNarrow ==
  \E t \in Threads :
    /\ Returned(t, "getInEdgeData")
    /\ ii[t] = 2 ^ NodeIdxBits - 1
    /\ InEdges_edgeData[0] # InEdges_edgeData[ii[t]]

\* the out-edge arrays of the LC_CSR_Graph base hold the input graph
ForwardLaidOut ==
  /\ "LC_CSR" \in loaded
  /\ numNodes = FileGraph_size /\ numEdges = FileGraph_sizeEdges
  /\ DOMAIN nodeData = 0..(FileGraph_size - 1)
  /\ edgeIndData = file.ind /\ edgeDst = file.dst /\ edgeData = file.data

\* the accessors of the in-edges have arrays to read: the pointers of inEdges
\* are set and lead to the edges of the graph, the range of every node's
\* in-edges lying inside them
InEdgesUsable ==
  /\ inEdges.edgeIndData # "unset" /\ inEdges.edgeDst # "unset"
  /\ inEdges.edgeData # "unset"
  /\ DOMAIN InEdges_edgeDst = 0..(numEdges - 1)
  /\ DOMAIN InEdges_edgeData = 0..(numEdges - 1)
  /\ \A n \in 0..(numNodes - 1) :
       /\ 0 <= raw_begin(n) /\ raw_begin(n) <= raw_end(n) /\ raw_end(n) <= numEdges
       /\ \A e \in raw_begin(n)..(raw_end(n) - 1) : getEdgeDst(e) \in 0..(numNodes - 1)

\* C35: the single-graph bidirectional load requires the symmetric flag.
\* structureFromGraph (graph, false) ends in abort, after the out-edge arrays
\* have been laid out and with the in-edges untouched (no transpose is
\* computed); structureFromGraph (graph, true) raises no error and leaves the
\* in-edge accessors usable.
C35_SymmetricRequired ==
  /\ [][\A symmetric \in BOOLEAN :
          InOut_structureFromGraph_symmetric(symmetric) =>
            IF symmetric
            THEN fatal' = "none" /\ ForwardLaidOut' /\ InEdgesUsable'
            ELSE fatal' = "abort" /\ ForwardLaidOut' /\ inEdges' = NoInEdges]_vars
  /\ [](fatal = "abort" => (ForwardLaidOut /\ inEdges = NoInEdges))
  /\ []((fatal = "none" /\ "symmetric" \in loaded) => InEdgesUsable)

\* a graph with edges was loaded with symmetric = false: the program has
\* aborted, and the out-edge arrays hold the graph
C35_Witness ==
  /\ fatal = "abort"
  /\ "symmetric" \in loaded
  /\ numEdges > 0
  /\ edgeDst = file.dst

\* a graph with edges was loaded with symmetric = true and the in-edges of a
\* node are its out-edges
C35_WitnessSymmetric ==
  /\ fatal = "none"
  /\ "symmetric" \in loaded
  /\ \E n \in Nodes : raw_begin(n) < raw_end(n) /\ InEdges_CSR(n) = OutEdges_CSR(n)

(* ------------- sorting the edges of one node, in two layouts ----------- *)

\* the address of the EdgeInfo number i (from 0) of the node at address a
edgeSlot(a, i) == NodeInfo_edgeBegin(a) + i * SizeofEdgeInfo

\* the addresses of the units between N->edgeBegin () and N->edgeEnd (), N
\* being the node at address a
edgeUnits(a) == NodeInfo_edgeBegin(a)..(NodeInfo_edgeEnd(a, lin.mem[a].numEdges) - 1)

\* std::sort over the EdgeInfo objects of the node at address a: the values
\* (dst and payload) are permuted into an order in which none comes before
\* one that comp puts first; f is the field comp looks at
sortRange(a, c, f) ==
  LET R == 0..(lin.mem[a].numEdges - 1)
      at(i) == lin.mem[edgeSlot(a, i)]
      key(i) == IF f = "dst" THEN at(i).dst ELSE at(i).data
      edgeOf(u) == (u - NodeInfo_edgeBegin(a)) \div SizeofEdgeInfo
  IN  \E p \in Perms(R) :
        /\ \A i, j \in R : i < j => ~before(c, key(p[j]), key(p[i]))
        /\ lin' = [lin EXCEPT !.mem =
                     [u \in DOMAIN lin.mem |->
                        IF u \in edgeUnits(a)
                        THEN [lin.mem[u] EXCEPT !.dst = at(p[edgeOf(u)]).dst,
                                                !.data = at(p[edgeOf(u)]).data]
                        ELSE lin.mem[u]]]

\* variant: the range sorted is that of the first node of the buffer
Linear_std_sort_FirstNode(n, c, f) == sortRange(lin.nodes[0], c, f)

\* std::sort (N->edgeBegin (), N->edgeEnd (), comp) of LC_Linear_Graph, N
\* being nodes[n]
Linear_std_sort(n, c, f) == sortRange(lin.nodes[n], c, f)

\* a sort of LC_Linear_Graph: acquire (N, mflag), then the std::sort if the
\* acquire succeeds
LC_Linear_sort(t, a, n, c, m, f) ==
  /\ "LC_Linear" \in loaded
  /\ NoTraversal(t, n)
  /\ pc[t] = "idle"
  /\ LET r == acquire(nodeOwner, t, n, m)
     IN  /\ nodeOwner' = r.owner
         /\ casRes' = [casRes EXCEPT ![t] = r.cas]
         /\ pc' = [pc EXCEPT ![t] = IF r.ok THEN "ret" ELSE "conflict"]
         /\ acquired' = [acquired EXCEPT ![t] =
                           IF r.ok /\ acquires(m) THEN <<n>> ELSE <<>>]
         /\ IF r.ok THEN Linear_std_sort(n, c, f) ELSE UNCHANGED lin
  /\ acc' = [acc EXCEPT ![t] = a]
  /\ N' = [N EXCEPT ![t] = n]
  /\ mflag' = [mflag EXCEPT ![t] = m]
  /\ ii' = [ii EXCEPT ![t] = 0]
  /\ UNCHANGED <<owner, live, lockable, allNItems, larg, ni, ret, mode, todo, resets,
                 claims, assertOk, danglingUse, mapVars, file, loaded, inl, numa,
                 activeThreads, ctxtVars, nodeData, numNodes, numEdges, inoutVars,
                 topology>>

\* LC_Linear_Graph::sortEdgesByEdgeData (lines 690-693)
LC_Linear_sortEdgesByEdgeData(t, n, c, m) ==
  LC_Linear_sort(t, "sortEdgesByEdgeData", n, c, m, "data")

\* LC_Linear_Graph::sortEdges (lines 699-702), comp comparing the
\* destinations
LC_Linear_sortEdges(t, n, c, m) ==
  LC_Linear_sort(t, "sortEdges", n, c, m, "dst")

\* a graph object of either layout, not yet loaded; the input is any
\* structural graph with payloads
InitSortLocal ==
  /\ InitLayouts
  /\ activeThreads = 1

\* the program loads the graph into one of the two layouts; then the sorts
\* are called one after the other by any context under any policy
NextSortLocal ==
  \/ loaded = {} /\ LC_CSR_structureFromGraph
  \/ loaded = {} /\ LC_Linear_structureFromGraph
  \/ \E t \in Threads, n \in Nodes, c \in Comparators, m \in MethodFlag :
       "LC_CSR" \in loaded /\ Alone(t) /\ sortEdgesByEdgeData(t, n, c, m)
  \/ \E t \in Threads, n \in Nodes, c \in Comparators, m \in MethodFlag :
       "LC_CSR" \in loaded /\ Alone(t) /\ sortEdges(t, n, c, m)
  \/ \E t \in Threads, n \in Nodes, c \in Comparators, m \in MethodFlag :
       Alone(t) /\ LC_Linear_sortEdgesByEdgeData(t, n, c, m)
  \/ \E t \in Threads, n \in Nodes, c \in Comparators, m \in MethodFlag :
       Alone(t) /\ LC_Linear_sortEdges(t, n, c, m)
  \/ \E t \in Threads : Return(t)
  \/ \E t \in Threads : abort(t)
  \/ \E t \in Threads : commit(t)

SpecSortLocal == InitSortLocal /\ [][NextSortLocal]_vars

(* ---------------------- claims about the sorts' frame ------------------ *)

\* a step of context t on node n takes no record but that of n
OnlyOwnRecord(t, n) ==
  /\ \A x \in Nodes \ {n} : nodeOwner'[x] = nodeOwner[x]
  /\ acquired'[t] \in {<<>>, <<n>>}

\* what a sort of node n of the LC_CSR_Graph leaves alone
LocalCSR(n) ==
  /\ \A e \in EdgeIdx \ (raw_neighbor_begin(n)..(raw_neighbor_end(n) - 1)) :
       edgeDst'[e] = edgeDst[e] /\ edgeData'[e] = edgeData[e]
  /\ \A x \in Nodes \ {n} : OutEdges_CSR(x)' = OutEdges_CSR(x)
  /\ nodeData' = nodeData
  /\ edgeIndData' = edgeIndData

\* what a sort of node n of the LC_Linear_Graph leaves alone
LocalLinear(n) ==
  /\ \A u \in DOMAIN lin.mem \ edgeUnits(lin.nodes[n]) : lin'.mem[u] = lin.mem[u]
  /\ DOMAIN lin'.mem = DOMAIN lin.mem
  /\ \A x \in Nodes \ {n} : OutEdges_Packed(lin, x)' = OutEdges_Packed(lin, x)
  /\ \A x \in Nodes : NodePayload("LC_Linear", x)' = NodePayload("LC_Linear", x)
  /\ lin'.nodes = lin.nodes
  /\ \A x \in Nodes : Len(OutEdges_Packed(lin, x)') = Len(OutEdges_Packed(lin, x))

\* C36: sorting one node's edges is local.  A sortEdges or
\* sortEdgesByEdgeData on node n, of LC_CSR_Graph or LC_Linear_Graph, changes
\* no slot outside the edge range of n: the edge sequence of every other
\* node, all node payloads and the per-node edge offsets are as before; and
\* under every policy no record but that of n is acquired.
C36_SortLocal ==
  [][\A t \in Threads, n \in Nodes, c \in Comparators, m \in MethodFlag :
       /\ ("LC_CSR" \in loaded
             /\ (sortEdgesByEdgeData(t, n, c, m) \/ sortEdges(t, n, c, m))) =>
            (LocalCSR(n) /\ OnlyOwnRecord(t, n))
       /\ (LC_Linear_sortEdgesByEdgeData(t, n, c, m) \/ LC_Linear_sortEdges(t, n, c, m)) =>
            (LocalLinear(n) /\ OnlyOwnRecord(t, n))]_vars

\* thread t has sorted the one edge of node n by destination under the
\* policy that asks for the neighborhood; the other node x has an edge that
\* a sort over both would have put elsewhere, and its record is not t's
SortedBeside(L, t, n, x) ==
  /\ L \in loaded
  /\ pc[t] = "ret" /\ acc[t] = "sortEdges" /\ N[t] = n
  /\ mflag[t] = "checkRaceAndNeighbors"
  /\ n > x
  /\ Len(OutEdges(L, n)) = 1 /\ Len(OutEdges(L, x)) = 1
  /\ OutEdges(L, n)[1].dst < OutEdges(L, x)[1].dst
  /\ OutEdges(L, x) = FileEdges(x)
  /\ nodeOwner[n].ptr = t /\ nodeOwner[x].ptr # t

\* such a sort has returned on the LC_Linear_Graph
C36_Witness ==
  \E t \in Threads, n, x \in Nodes : SortedBeside("LC_Linear", t, n, x)

\* such a sort has returned on the LC_CSR_Graph
C36_WitnessCSR ==
  \E t \in Threads, n, x \in Nodes : SortedBeside("LC_CSR", t, n, x)

====
